---- MODULE Spec2Model ----
(***************************************************************************)
(* State-machine model of the PadawanZero address generation subsystem:    *)
(* the nonce registry (internal/state/nonce.go) and the address            *)
(* orchestrator with its LRU cache (account package, GenerateAddress).     *)
(*                                                                         *)
(* Conventions                                                             *)
(*  - A Go pointer that may be nil is a set with at most one element:      *)
(*    {} is nil and {x} points at x.                                       *)
(*  - Coordinates are float64 in the code.  The model counts them in       *)
(*    units of 1e-7 degree (an Int), plus the value NaN.  fmt's "%f" keeps *)
(*    six decimals, i.e. rounds to units of 1e-6 degree (FormatF).         *)
(*  - crypto/rand output is a value never drawn before (a counter): 32     *)
(*    random bytes collide with probability 2^-256.                        *)
(*  - The clock is time.Now().Unix(), in seconds, and never runs backwards.*)
(***************************************************************************)
EXTENDS Integers, Sequences, FiniteSets, TLC

VARIABLES
    now,        \* time.Now().Unix()
    nonces,     \* nonce.go: var nonces map[string]Nonce
    nonceSeq,   \* number of values drawn from crypto/rand by the registry
    lastOp,     \* history: the last direct call on the registry, its pre-state
    issued,     \* history: every nonce a GenerateOrUpdateNonce call returned
    addressCache, \* the LRU cache, most recently used entry first
    issueSeq,   \* number of issuances that missed the cache and fanned out
    thr,        \* the goroutines that call GenerateAddress, with their locals
    crashed,    \* a goroutine panicked: the Go runtime has ended the process
    lastOk,     \* history: the GenerateAddress call that returned last, if it
                \* succeeded and no other call entered or joined since
    useOrder,   \* history: the keys used (hit or stored), least recent first
    faults,     \* number of sub-task failures so far
    batch,      \* the GenerateAddressesBatch call in progress, with its locals
    calc,       \* the codec or geometry function applied last: input, result
    fan,        \* one GenerateAddress call, statement by statement: the four
                \* goroutines, the WaitGroup and the variables they share
    noncesMutex, \* the registry's sync.RWMutex: its writer and its readers
    hashContext, \* the registry's shared hasher: what was written to it
    proc,       \* the goroutines inside the registry's functions
    am          \* the AccountManager: its accounts, its state matrix, its last call

registryVars == <<nonces, nonceSeq, lastOp, issued>>

issueVars == <<addressCache, issueSeq, thr, crashed, lastOk, useOrder, faults>>

extVars == <<fan, noncesMutex, hashContext, proc, am>>

auxVars == <<batch, calc, extVars>>

vars == <<now, nonces, nonceSeq, lastOp, issued,
          addressCache, issueSeq, thr, crashed, lastOk, useOrder, faults,
          batch, calc, extVars>>

----------------------------------------------------------------------------
(* Program constants *)

nonceLifetime == 3600

(* Bounds of the model *)

MaxTime == 5402
MaxNonces == 3

----------------------------------------------------------------------------
(* Coordinates and the cache / registry key *)

Degree == 10000000

\* float64 NaN: every ordered comparison with it is false
NaN == 2000000000

FloatLess(a, b) == a # NaN /\ b # NaN /\ a < b

FloatGreater(a, b) == a # NaN /\ b # NaN /\ a > b

Abs(x) == IF x < 0 THEN -x ELSE x

\* fmt.Sprintf("%f", x): sign, then the magnitude rounded to six decimals
FormatF(x) ==
    IF x = NaN THEN <<"NaN", 0>>
    ELSE <<IF x < 0 THEN "-" ELSE "", (Abs(x) + 5) \div 10>>

\* key := fmt.Sprintf("%f,%f", lat, lon)
CoordKey(lat, lon) == <<FormatF(lat), FormatF(lon)>>

\* The arguments <<lat, lon, bits>> the callers of GenerateAddress pass:
\* valid ones, the out-of-range cases of TestEdgeCases, and a NaN latitude
Calls ==
    { <<0, 0, 256>>,
      <<NaN, 0, 256>>,
      <<91 * Degree, 0, 256>>,
      <<0, -181 * Degree, 256>>,
      <<0, 0, 0>> }

\* The identities the registry is called with directly: keys of coordinates
Identities ==
    {CoordKey(lat, lon) : lat \in {0, 40 * Degree}, lon \in {0}}

----------------------------------------------------------------------------
(* internal/state/nonce.go *)

\* generateNonceHash: BLAKE3 over address || value, taken as collision free
generateNonceHash(address, value) == <<"blake3", address, value>>

Nonce(address, value, hash, timestamp) ==
    [Address |-> address, Value |-> value, Hash |-> hash, Timestamp |-> timestamp]

\* nonces[address] = nonce
MapPut(m, k, v) == [x \in (DOMAIN m) \cup {k} |-> IF x = k THEN v ELSE m[x]]

\* Variant: a stored nonce is never reused
GenerateOrUpdateNonce_AlwaysNew(reg, address, t, randOk, value) ==
    IF ~randOk
    THEN [ret |-> {}, reg |-> reg, drew |-> FALSE]
    ELSE LET nonce == Nonce(address, value, generateNonceHash(address, value), t)
         IN  [ret |-> {nonce}, reg |-> MapPut(reg, address, nonce), drew |-> TRUE]

\* Variant: an existing nonce is returned whatever its age
GenerateOrUpdateNonce_NoExpiry(reg, address, t, randOk, value) ==
    IF address \in DOMAIN reg
    THEN [ret |-> {reg[address]}, reg |-> reg, drew |-> FALSE]
    ELSE IF ~randOk
    THEN [ret |-> {}, reg |-> reg, drew |-> FALSE]
    ELSE LET nonce == Nonce(address, value, generateNonceHash(address, value), t)
         IN  [ret |-> {nonce}, reg |-> MapPut(reg, address, nonce), drew |-> TRUE]

\* GenerateOrUpdateNonce(address) at time t.  randOk: rand.Read returned no
\* error; value: the bytes it produced.  Result: the pointer returned and
\* the registry afterwards.
GenerateOrUpdateNonce(reg, address, t, randOk, value) ==
    IF address \in DOMAIN reg /\ t - reg[address].Timestamp <= nonceLifetime
    THEN [ret |-> {reg[address]}, reg |-> reg, drew |-> FALSE]
    ELSE IF ~randOk
    THEN [ret |-> {}, reg |-> reg, drew |-> FALSE]
    ELSE LET nonce == Nonce(address, value, generateNonceHash(address, value), t)
         IN  [ret |-> {nonce}, reg |-> MapPut(reg, address, nonce), drew |-> TRUE]

\* Variant: the age of the stored nonce is not compared
ValidateNonce_NoExpiry(reg, address, nonce, t) ==
    IF address \in DOMAIN reg
    THEN /\ nonce.Value = reg[address].Value
         /\ nonce.Hash = reg[address].Hash
    ELSE FALSE

\* Variant: the hash of the candidate is not compared
ValidateNonce_NoHash(reg, address, nonce, t) ==
    IF address \in DOMAIN reg
    THEN /\ nonce.Value = reg[address].Value
         /\ t - reg[address].Timestamp <= nonceLifetime
    ELSE FALSE

\* ValidateNonce(address, nonce) at time t
ValidateNonce(reg, address, nonce, t) ==
    IF address \in DOMAIN reg
    THEN /\ nonce.Value = reg[address].Value
         /\ nonce.Hash = reg[address].Hash
         /\ t - reg[address].Timestamp <= nonceLifetime
    ELSE FALSE

\* Variant: an entry is removed as soon as its age reaches the lifetime
PruneExpiredNonces_AtLifetime(reg, t) ==
    LET keep == {a \in DOMAIN reg : ~(t - reg[a].Timestamp >= nonceLifetime)}
    IN  [a \in keep |-> reg[a]]

\* PruneExpiredNonces() at time t
PruneExpiredNonces(reg, t) ==
    LET keep == {a \in DOMAIN reg : ~(t - reg[a].Timestamp > nonceLifetime)}
    IN  [a \in keep |-> reg[a]]

----------------------------------------------------------------------------
(* account package: the address cache and GenerateAddress's data *)

\* addressCache, _ = lru.New(100)
CacheSize == 100

\* The goroutines that call GenerateAddress
Threads == {1, 2}

Remove(c, key) == SelectSeq(c, LAMBDA e : e.key # key)

CacheKeys(c) == {c[i].key : i \in 1..Len(c)}

\* The value cached under key
CacheValue(c, key) == c[CHOOSE i \in 1..Len(c) : c[i].key = key].value

\* Variant: a lookup that does not count as a use
lruGet_NoTouch(c, key) ==
    IF key \in CacheKeys(c)
    THEN [ok |-> TRUE, value |-> {CacheValue(c, key)}, cache |-> c]
    ELSE [ok |-> FALSE, value |-> {}, cache |-> c]

\* Variant: a lookup that finds nothing
lruGet_Miss(c, key) == [ok |-> FALSE, value |-> {}, cache |-> c]

\* addressCache.Get(key): the value if present, and the entry becomes the
\* most recently used
lruGet(c, key) ==
    IF key \in CacheKeys(c)
    THEN [ok |-> TRUE, value |-> {CacheValue(c, key)},
          cache |-> <<[key |-> key, value |-> CacheValue(c, key)]>> \o Remove(c, key)]
    ELSE [ok |-> FALSE, value |-> {}, cache |-> c]

\* Variant: an existing entry keeps its value (ContainsOrAdd)
lruAdd_KeepOld(c, key, value) ==
    LET e == [key |-> key, value |-> value]
    IN  IF key \in CacheKeys(c) THEN c
        ELSE IF Len(c) >= CacheSize THEN <<e>> \o SubSeq(c, 1, CacheSize - 1)
        ELSE <<e>> \o c

\* addressCache.Add(key, value): an existing entry is replaced and becomes
\* the most recently used; a new one is put in front and, if the cache then
\* exceeds its size, the least recently used entry is evicted
lruAdd(c, key, value) ==
    LET e == [key |-> key, value |-> value]
    IN  IF key \in CacheKeys(c) THEN <<e>> \o Remove(c, key)
        ELSE IF Len(c) >= CacheSize THEN <<e>> \o SubSeq(c, 1, CacheSize - 1)
        ELSE <<e>> \o c

\* base64.RawStdEncoding and base64.StdEncoding
EncodeRaw(x) == <<"b64raw", x>>

EncodeStd(x) == <<"b64", x>>

AddressInfo(publicKey, locationCommitment, zkpProof, nonceValue, nonceHash) ==
    [PublicKey |-> publicKey, LocationCommitment |-> locationCommitment,
     ZKPProof |-> zkpProof, NonceValue |-> nonceValue, NonceHash |-> nonceHash]

\* The error values
NoError == ""

NoErrors == [i \in 0..3 |-> NoError]

\* GenerateAddress's checks of its arguments, in the order of the code
CheckArguments(lat, lon, bits) ==
    IF bits <= 0 THEN "bits must be positive"
    ELSE IF FloatLess(lat, -90 * Degree) \/ FloatGreater(lat, 90 * Degree)
    THEN "invalid latitude"
    ELSE IF FloatLess(lon, -180 * Degree) \/ FloatGreater(lon, 180 * Degree)
    THEN "invalid longitude"
    ELSE NoError

\* for _, err := range errs { if err != nil { return nil, err } }
FirstError(errs) ==
    IF \E i \in 0..3 : errs[i] # NoError
    THEN errs[CHOOSE i \in 0..3 :
                /\ errs[i] # NoError
                /\ \A j \in 0..3 : errs[j] # NoError => i <= j]
    ELSE NoError

\* No GenerateAddressesBatch call is in progress
IdleBatch ==
    [pc |-> "idle", coords |-> <<>>, bits |-> 0, pending |-> {},
     addresses |-> <<>>, errs |-> <<>>, ret |-> [addresses |-> {}, err |-> NoError],
     pre |-> [cache |-> <<>>, nonces |-> <<>>]]

\* No codec or geometry function has been applied
NoCalc == [op |-> "none", in |-> <<>>, out |-> <<>>, src |-> {}]

\* A goroutine that is not in GenerateAddress
IdleThread ==
    [pc |-> "idle", lat |-> 0, lon |-> 0, bits |-> 0, key |-> <<>>,
     hit |-> FALSE, seq |-> 0, pending |-> {}, errs |-> NoErrors,
     publicKey |-> {}, locationCommitment |-> {}, zkpProofStr |-> <<>>,
     secret |-> <<>>,
     nonce |-> {}, stored |-> FALSE, failed |-> {},
     ret |-> [ai |-> {}, err |-> NoError]]

\* No GenerateAddress call is followed statement by statement.  task[i]: where
\* goroutine i is; local[i]: what its call returned to it; wg: the WaitGroup's
\* counter; publicKey, locationCommitment, zkpProofStr, nonce, errs: the
\* variables of GenerateAddress the goroutines share with it
IdleFan ==
    [pc |-> "idle", lat |-> 0, lon |-> 0, bits |-> 0, key |-> <<>>, seq |-> 0,
     wg |-> 0, task |-> [i \in 0..3 |-> "idle"],
     local |-> [i \in 0..3 |-> [val |-> {}, err |-> NoError]],
     publicKey |-> {}, locationCommitment |-> {}, zkpProofStr |-> <<>>,
     nonce |-> {}, errs |-> NoErrors,
     ret |-> [ai |-> {}, err |-> NoError]]

\* The goroutines that call the registry's functions
Procs == {1, 2}

\* A goroutine that is in none of the registry's functions
IdleProc ==
    [pc |-> "idle", op |-> "none", address |-> <<>>, cand |-> {}, value |-> 0,
     hash |-> <<>>, ret |-> {}, ok |-> FALSE]

\* NewAccountManager(): no accounts, a 1x1 state matrix holding 0.0.  calls
\* counts the calls made, last is the history of the latest one
NewAccountManager ==
    [accounts |-> <<>>, state |-> <<0>>, calls |-> 0,
     last |-> [op |-> "none", from |-> "", to |-> "", amount |-> 0, err |-> NoError,
               pre |-> <<>>]]

----------------------------------------------------------------------------
(* Initial state and the registry's actions *)

NoOp == [op |-> "none", address |-> <<>>, cand |-> {}, t |-> 0,
         pre |-> <<>>, ret |-> {}, ok |-> FALSE]

Init ==
    /\ now = 0
    /\ nonces = <<>>
    /\ nonceSeq = 0
    /\ lastOp = NoOp
    /\ issued = {}
    /\ addressCache = <<>>
    /\ issueSeq = 0
    /\ thr = [t \in Threads |-> IdleThread]
    /\ crashed = FALSE
    /\ lastOk = {}
    /\ useOrder = <<>>
    /\ faults = 0
    /\ batch = IdleBatch
    /\ calc = NoCalc
    /\ fan = IdleFan
    /\ noncesMutex = [writer |-> {}, readers |-> {}]
    /\ hashContext = <<>>
    /\ proc = [p \in Procs |-> IdleProc]
    /\ am = NewAccountManager

\* The clock advances by d seconds
TickBy(d) ==
    /\ now + d <= MaxTime
    /\ now' = now + d
    /\ UNCHANGED <<registryVars, issueVars, auxVars>>

TickSteps == {nonceLifetime \div 2, nonceLifetime \div 2 + 1}

Tick == \E d \in TickSteps : TickBy(d)

\* A caller runs GenerateOrUpdateNonce(address)
IssueOrRefresh ==
    \E address \in Identities, randOk \in BOOLEAN :
        LET r == GenerateOrUpdateNonce(nonces, address, now, randOk, nonceSeq + 1)
        IN  /\ r.drew => nonceSeq < MaxNonces
            /\ nonces' = r.reg
            /\ nonceSeq' = IF r.drew THEN nonceSeq + 1 ELSE nonceSeq
            /\ issued' = issued \cup r.ret
            /\ lastOp' = [op |-> "issue", address |-> address, cand |-> {},
                          t |-> now, pre |-> nonces, ret |-> r.ret, ok |-> randOk]
            /\ UNCHANGED <<now, issueVars, auxVars>>

\* The candidates callers present to ValidateNonce: a returned nonce, the
\* value of one returned nonce with the hash of another, and the all-zero
\* value 0 with a hash computed for it (as nonce_test.go forges one)
Candidates ==
    issued
    \cup {Nonce(n.Address, n.Value, m.Hash, n.Timestamp) : n \in issued, m \in issued}
    \cup {Nonce(a, 0, generateNonceHash(a, 0), 0) : a \in Identities}

\* A caller runs ValidateNonce(address, cand)
Validate ==
    \E address \in Identities, cand \in Candidates :
        /\ lastOp' = [op |-> "validate", address |-> address, cand |-> {cand},
                      t |-> now, pre |-> nonces, ret |-> {},
                      ok |-> ValidateNonce(nonces, address, cand, now)]
        /\ UNCHANGED <<now, nonces, nonceSeq, issued, issueVars, auxVars>>

\* PruneExpiredNonces() runs; log: the history variable records the call
PruneCall(log) ==
    /\ ~crashed
    /\ nonces' = PruneExpiredNonces(nonces, now)
    /\ lastOp' = IF log
                 THEN [op |-> "prune", address |-> <<>>, cand |-> {}, t |-> now,
                       pre |-> nonces, ret |-> {}, ok |-> TRUE]
                 ELSE lastOp
    /\ UNCHANGED <<now, nonceSeq, issued, issueVars, auxVars>>

Prune == PruneCall(TRUE)

NextNonce == Tick \/ IssueOrRefresh \/ Validate \/ Prune

SpecNonce == Init /\ [][NextNonce]_vars

----------------------------------------------------------------------------
(* GenerateAddress, one goroutine t at a time *)

\* History: key becomes the most recently used key
Touch(order, key) == SelectSeq(order, LAMBDA k : k # key) \o <<key>>

\* GenerateAddress(lat, lon, bits) up to the fan-out: the argument checks
\* and the cache lookup.  A failed check or a cache hit returns at once.
GenerateAddressEnter(t, lat, lon, bits) ==
    /\ ~crashed
    /\ thr[t].pc = "idle"
    /\ LET err == CheckArguments(lat, lon, bits)
           key == CoordKey(lat, lon)
           g == lruGet(addressCache, key)
           call == [IdleThread EXCEPT !.lat = lat, !.lon = lon, !.bits = bits]
       IN  IF err # NoError
           THEN /\ thr' = [thr EXCEPT ![t] =
                        [call EXCEPT !.pc = "done", !.ret = [ai |-> {}, err |-> err]]]
                /\ lastOk' = {}
                /\ UNCHANGED <<addressCache, issueSeq, useOrder>>
           ELSE IF g.ok
           THEN /\ thr' = [thr EXCEPT ![t] =
                        [call EXCEPT !.pc = "done", !.key = key, !.hit = TRUE,
                                     !.ret = [ai |-> g.value, err |-> NoError]]]
                /\ addressCache' = g.cache
                /\ useOrder' = Touch(useOrder, key)
                /\ lastOk' = {[lat |-> lat, lon |-> lon, ai |-> x] : x \in g.value}
                /\ UNCHANGED issueSeq
           ELSE /\ thr' = [thr EXCEPT ![t] =
                        [call EXCEPT !.pc = "fanout", !.key = key,
                                     !.seq = issueSeq + 1, !.pending = 0..3]]
                /\ issueSeq' = issueSeq + 1
                /\ lastOk' = {}
                /\ UNCHANGED <<addressCache, useOrder>>
    /\ UNCHANGED <<now, registryVars, crashed, faults, auxVars>>

\* History: a sub-task of t that fails in this step is counted
CountFault(t) ==
    faults' = IF thr'[t].failed # thr[t].failed THEN faults + 1 ELSE faults

\* Sub-task 0: GenerateCryptoKeys.  ok: the post-quantum primitives succeeded.
\* The hybrid public key is new with every issuance.
TaskKeys(t, ok) ==
    /\ ~crashed
    /\ thr[t].pc = "fanout"
    /\ 0 \in thr[t].pending
    /\ thr' = [thr EXCEPT
            ![t].pending = @ \ {0},
            ![t].publicKey = IF ok THEN {<<"pk", thr[t].seq>>} ELSE {},
            ![t].errs[0] = IF ok THEN NoError ELSE "error generating crypto keys",
            ![t].failed = IF ok THEN @ ELSE @ \cup {0}]
    /\ UNCHANGED <<now, registryVars, addressCache, issueSeq, crashed, lastOk, useOrder,
                   auxVars>>
    /\ CountFault(t)

\* Sub-task 1: GetDynamicPrecision, ConvertToPrecisionGrid, Bytes and
\* CommitLocation with a scalar picked for this commitment.  ok: the
\* post-quantum primitives succeeded (precision is 100, so the grid
\* conversion does not fail).
TaskCommit(t, ok) ==
    /\ ~crashed
    /\ thr[t].pc = "fanout"
    /\ 1 \in thr[t].pending
    /\ thr' = [thr EXCEPT
            ![t].pending = @ \ {1},
            ![t].locationCommitment = IF ok THEN {<<"lc", thr[t].seq>>} ELSE {},
            ![t].errs[1] = IF ok THEN NoError ELSE "failed to generate quantum key pair",
            ![t].failed = IF ok THEN @ ELSE @ \cup {1}]
    /\ UNCHANGED <<now, registryVars, addressCache, issueSeq, crashed, lastOk, useOrder,
                   auxVars>>
    /\ CountFault(t)

\* The secret of the proof: h.Write([]byte(fmt.Sprintf("%f,%f", lat, lon))),
\* hash := h.Sum(nil), handed to NewZK13 and to Prover
ProofSecret(lat, lon) == <<"blake3", CoordKey(lat, lon)>>

\* Variant: the prover is always built with 256 bits
TaskProof_FixedBits(t, ok) ==
    /\ ~crashed
    /\ thr[t].pc = "fanout"
    /\ 2 \in thr[t].pending
    /\ IF ok
       THEN /\ thr' = [thr EXCEPT
                    ![t].pending = @ \ {2},
                    ![t].secret = ProofSecret(thr[t].lat, thr[t].lon),
                    ![t].zkpProofStr = <<"zkp", thr[t].key, 256, thr[t].seq>>]
            /\ UNCHANGED crashed
       ELSE /\ thr' = [thr EXCEPT ![t].pc = "panic", ![t].failed = @ \cup {2}]
            /\ crashed' = TRUE
    /\ UNCHANGED <<now, registryVars, addressCache, issueSeq, lastOk, useOrder, auxVars>>
    /\ CountFault(t)

\* Sub-task 2: the proof over the hash of the "%f,%f" key, with bits.  ok:
\* zkp.Prover returned a proof.  The sub-task discards Prover's error result
\* and never writes errs[2]; Prover returns a nil proof with an error, so
\* r.R is then a nil dereference: the goroutine panics and the process ends.
TaskProof(t, ok) ==
    /\ ~crashed
    /\ thr[t].pc = "fanout"
    /\ 2 \in thr[t].pending
    /\ IF ok
       THEN /\ thr' = [thr EXCEPT
                    ![t].pending = @ \ {2},
                    ![t].secret = ProofSecret(thr[t].lat, thr[t].lon),
                    ![t].zkpProofStr = <<"zkp", thr[t].key, thr[t].bits, thr[t].seq>>]
            /\ UNCHANGED crashed
       ELSE /\ thr' = [thr EXCEPT ![t].pc = "panic", ![t].failed = @ \cup {2}]
            /\ crashed' = TRUE
    /\ UNCHANGED <<now, registryVars, addressCache, issueSeq, lastOk, useOrder, auxVars>>
    /\ CountFault(t)

\* Sub-task 3: state.GenerateOrUpdateNonce(key).  It never writes errs[3].
TaskNonce(t, randOk) ==
    /\ ~crashed
    /\ thr[t].pc = "fanout"
    /\ 3 \in thr[t].pending
    /\ LET r == GenerateOrUpdateNonce(nonces, thr[t].key, now, randOk, nonceSeq + 1)
       IN  /\ nonces' = r.reg
           /\ nonceSeq' = IF r.drew THEN nonceSeq + 1 ELSE nonceSeq
           /\ issued' = issued \cup r.ret
           /\ thr' = [thr EXCEPT
                    ![t].pending = @ \ {3},
                    ![t].nonce = r.ret,
                    ![t].stored = r.drew,
                    ![t].failed = IF r.ret = {} THEN @ \cup {3} ELSE @]
    /\ UNCHANGED <<now, lastOp, addressCache, issueSeq, crashed, lastOk, useOrder, auxVars>>
    /\ CountFault(t)

\* GenerateAddress after wg.Wait(): the error loop, the AddressInfo and the
\* store in the cache.  With nonce == nil, nonce.Value is a nil dereference.
GenerateAddressJoin(t) ==
    /\ ~crashed
    /\ thr[t].pc = "fanout"
    /\ thr[t].pending = {}
    /\ LET err == FirstError(thr[t].errs)
       IN  IF err # NoError
           THEN /\ thr' = [thr EXCEPT ![t].pc = "done",
                                      ![t].ret = [ai |-> {}, err |-> err]]
                /\ lastOk' = {}
                /\ UNCHANGED <<addressCache, crashed, useOrder>>
           ELSE IF thr[t].nonce = {}
           THEN /\ thr' = [thr EXCEPT ![t].pc = "panic"]
                /\ crashed' = TRUE
                /\ lastOk' = {}
                /\ UNCHANGED <<addressCache, useOrder>>
           ELSE LET pk == CHOOSE x \in thr[t].publicKey : TRUE
                    lc == CHOOSE x \in thr[t].locationCommitment : TRUE
                    n == CHOOSE x \in thr[t].nonce : TRUE
                    ai == AddressInfo(EncodeRaw(pk), EncodeRaw(lc), thr[t].zkpProofStr,
                                      EncodeStd(n.Value), EncodeStd(n.Hash))
                IN  /\ thr' = [thr EXCEPT ![t].pc = "done",
                                          ![t].ret = [ai |-> {ai}, err |-> NoError]]
                    /\ addressCache' = lruAdd(addressCache, thr[t].key, ai)
                    /\ useOrder' = Touch(useOrder, thr[t].key)
                    /\ lastOk' = {[lat |-> thr[t].lat, lon |-> thr[t].lon, ai |-> ai]}
                    /\ UNCHANGED crashed
    /\ UNCHANGED <<now, registryVars, issueSeq, faults, auxVars>>

\* The caller has taken the result; the goroutine is free for another call
Return(t) ==
    /\ ~crashed
    /\ thr[t].pc = "done"
    /\ thr' = [thr EXCEPT ![t] = IdleThread]
    /\ UNCHANGED <<now, registryVars, addressCache, issueSeq, crashed, lastOk,
                   useOrder, faults, auxVars>>

----------------------------------------------------------------------------
(* The system: callers of GenerateAddress, the clock and the pruner *)

MaxIssues == 2

\* Sub-task failures injected in one run
MaxFaults == 1

Issue ==
    \E t \in Threads, c \in Calls :
        /\ GenerateAddressEnter(t, c[1], c[2], c[3])
        /\ issueSeq' <= MaxIssues

KeysTask ==
    \E t \in Threads, ok \in BOOLEAN : TaskKeys(t, ok) /\ faults' <= MaxFaults

CommitTask ==
    \E t \in Threads, ok \in BOOLEAN : TaskCommit(t, ok) /\ faults' <= MaxFaults

ProofTask == \E t \in Threads : TaskProof(t, TRUE)

\* zkp.Prover fails
ProofFault == \E t \in Threads : TaskProof(t, FALSE) /\ faults' <= MaxFaults

NonceTask ==
    \E t \in Threads, randOk \in BOOLEAN :
        /\ TaskNonce(t, randOk)
        /\ nonceSeq' <= MaxNonces
        /\ faults' <= MaxFaults

\* The clock passes the lifetime of a nonce
Expire == TickBy(nonceLifetime + 1)

\* The periodic sweep of the registry
Pruner == PruneCall(FALSE)

Join == \E t \in Threads : GenerateAddressJoin(t)

Returned == \E t \in Threads : Return(t)

Next ==
    \/ Expire
    \/ Pruner
    \/ Issue
    \/ KeysTask
    \/ CommitTask
    \/ ProofTask
    \/ NonceTask
    \/ Join
    \/ Returned

Spec == Init /\ [][Next]_vars

\* The system with a prover that can fail
NextProver == Next \/ ProofFault

SpecProver == Init /\ [][NextProver]_vars

----------------------------------------------------------------------------
(* The cache at its capacity: callers issue one new coordinate after the    *)
(* other, as TestAddressCache does, and come back to the first one          *)

MaxKeys == 102

\* The i-th coordinate pair: whole degrees, distinct for distinct i
LatOf(i) == (i % 91) * Degree

LonOf(i) == (i \div 91) * Degree

\* The coordinates a caller comes back to: 0.0000003 degrees from the first
\* pair, which "%f" formats to the same key
RevisitCoords == {<<3, 0>>}

LruThreads == {1}

LruIssue ==
    \E t \in LruThreads :
        \E c \in RevisitCoords \cup {<<LatOf(Len(useOrder)), LonOf(Len(useOrder))>>} :
            /\ Len(useOrder) < MaxKeys
            /\ GenerateAddressEnter(t, c[1], c[2], 256)

LruKeysTask == \E t \in LruThreads : TaskKeys(t, TRUE)

LruCommitTask == \E t \in LruThreads : TaskCommit(t, TRUE)

LruProofTask == \E t \in LruThreads : TaskProof(t, TRUE)

LruNonceTask == \E t \in LruThreads : TaskNonce(t, TRUE)

LruJoin == \E t \in LruThreads : GenerateAddressJoin(t)

LruReturned == \E t \in LruThreads : Return(t)

NextLRU ==
    \/ LruIssue
    \/ LruKeysTask
    \/ LruCommitTask
    \/ LruProofTask
    \/ LruNonceTask
    \/ LruJoin
    \/ LruReturned

SpecLRU == Init /\ [][NextLRU]_vars

----------------------------------------------------------------------------
(* GenerateAddressesBatch: one goroutine per coordinate pair, each calling *)
(* GenerateAddress and writing its own slots of addresses and errs         *)

\* Variant: goroutine i writes the slot counted from the end
BatchStore_Reversed(slots, i, v) == [slots EXCEPT ![Len(slots) + 1 - i] = v]

\* addresses[i], errs[i] = ...: goroutine i writes slot i
BatchStore(slots, i, v) == [slots EXCEPT ![i] = v]

\* Variant: the addresses are returned along with the error
BatchResult_Partial(addresses, errs) ==
    IF \E i \in 1..Len(errs) : errs[i] # NoError
    THEN [addresses |-> {addresses},
          err |-> errs[CHOOSE i \in 1..Len(errs) :
                        /\ errs[i] # NoError
                        /\ \A j \in 1..Len(errs) : errs[j] # NoError => i <= j]]
    ELSE [addresses |-> {addresses}, err |-> NoError]

\* After wg.Wait(): the first non-nil error in index order with a nil
\* slice, or the slice of addresses
BatchResult(addresses, errs) ==
    IF \E i \in 1..Len(errs) : errs[i] # NoError
    THEN [addresses |-> {},
          err |-> errs[CHOOSE i \in 1..Len(errs) :
                        /\ errs[i] # NoError
                        /\ \A j \in 1..Len(errs) : errs[j] # NoError => i <= j]]
    ELSE [addresses |-> {addresses}, err |-> NoError]

\* GenerateAddressesBatch(coords, bits) up to the loop: the slices are made
BatchEnter(coords, bits) ==
    /\ ~crashed
    /\ batch.pc = "idle"
    /\ \A t \in Threads : thr[t].pc = "idle"
    /\ batch' = [pc |-> "running", coords |-> coords, bits |-> bits,
                 pending |-> 1..Len(coords),
                 addresses |-> [i \in 1..Len(coords) |-> {}],
                 errs |-> [i \in 1..Len(coords) |-> NoError],
                 ret |-> [addresses |-> {}, err |-> NoError],
                 pre |-> [cache |-> addressCache, nonces |-> nonces]]
    /\ UNCHANGED <<now, registryVars, issueVars, calc, extVars>>

\* Goroutine i of the batch starts: it calls GenerateAddress(lat, lon, bits)
BatchMemberStart(i) ==
    /\ batch.pc = "running"
    /\ i \in batch.pending
    /\ GenerateAddressEnter(i, batch.coords[i][1], batch.coords[i][2], batch.bits)

\* Goroutine i's GenerateAddress has returned: the results go to its slots,
\* and wg.Done()
BatchMemberDone(i) ==
    /\ ~crashed
    /\ batch.pc = "running"
    /\ i \in batch.pending
    /\ thr[i].pc = "done"
    /\ batch' = [batch EXCEPT
            !.addresses = BatchStore(@, i, thr[i].ret.ai),
            !.errs = BatchStore(@, i, thr[i].ret.err),
            !.pending = @ \ {i}]
    /\ thr' = [thr EXCEPT ![i] = IdleThread]
    /\ UNCHANGED <<now, registryVars, addressCache, issueSeq, crashed, lastOk,
                   useOrder, faults, calc, extVars>>

\* wg.Wait() is over: the loop over errs, and the result
BatchJoin ==
    /\ ~crashed
    /\ batch.pc = "running"
    /\ batch.pending = {}
    /\ batch' = [batch EXCEPT !.pc = "done",
                              !.ret = BatchResult(batch.addresses, batch.errs)]
    /\ UNCHANGED <<now, registryVars, issueVars, calc, extVars>>

\* The caller has taken the batch's result
BatchReturn ==
    /\ ~crashed
    /\ batch.pc = "done"
    /\ batch' = IdleBatch
    /\ UNCHANGED <<now, registryVars, issueVars, calc, extVars>>

\* The longest coordinate list has one pair per goroutine of the model
MaxBatch == Cardinality(Threads)

\* The pairs in the lists: two valid ones and one of latitude 91
BatchPairs == {<<0, 0>>, <<40 * Degree, 0>>, <<91 * Degree, 0>>}

BatchInputs == UNION {[1..n -> BatchPairs] : n \in 0..MaxBatch}

BatchCall == \E coords \in BatchInputs : BatchEnter(coords, 256)

BatchMember ==
    \E i \in Threads : BatchMemberStart(i) /\ issueSeq' <= MaxIssues

BatchMemberReturned == \E i \in Threads : BatchMemberDone(i)

NextBatch ==
    \/ BatchCall
    \/ BatchMember
    \/ KeysTask
    \/ CommitTask
    \/ ProofTask
    \/ NonceTask
    \/ Join
    \/ BatchMemberReturned
    \/ BatchJoin
    \/ BatchReturn

SpecBatch == Init /\ [][NextBatch]_vars

----------------------------------------------------------------------------
(* AddressInfo's codecs.  A Go string or []byte is a sequence of bytes     *)
(* (0..255); the character of the base64 alphabet that stands for byte b   *)
(* is the number 1000 + b (one character per byte: padding and the 3-to-4  *)
(* grouping of base64 are left out), and the Unicode replacement character *)
(* U+FFFD in a JSON text is the number 65533.                              *)

\* The bytes of the model: the zero byte, '!' (ASCII, not in the base64
\* alphabet) and 0xFF (never part of valid UTF-8)
Bytes == {0, 33, 255}

\* The field values of the records the codecs are applied to
FieldStrings == {<<>>} \cup {<<b>> : b \in Bytes}

Records ==
    {AddressInfo(pk, lc, zkp, nv, nh) :
        pk \in FieldStrings, lc \in FieldStrings, zkp \in {<<>>, <<33>>, <<255>>},
        nv \in {<<>>, <<33>>}, nh \in {<<>>, <<255>>}}

\* &AddressInfo{}
EmptyAddressInfo == AddressInfo(<<>>, <<>>, <<>>, <<>>, <<>>)

\* MarshalBinary: PublicKey, 0, LocationCommitment, 0, ZKPProof
MarshalBinary(ai) ==
    ai.PublicKey \o <<0>> \o ai.LocationCommitment \o <<0>> \o ai.ZKPProof

RECURSIVE Split(_)
\* bytes.Split(data, []byte{0})
Split(data) ==
    IF \A i \in 1..Len(data) : data[i] # 0
    THEN <<data>>
    ELSE LET i == CHOOSE j \in 1..Len(data) :
                    data[j] = 0 /\ \A k \in 1..(j - 1) : data[k] # 0
         IN  <<SubSeq(data, 1, i - 1)>> \o Split(SubSeq(data, i + 1, Len(data)))

\* ai.UnmarshalBinary(data): the AddressInfo afterwards and the error
UnmarshalBinary(ai, data) ==
    LET parts == Split(data)
    IN  IF Len(parts) # 3
        THEN [ai |-> ai, err |-> "invalid binary format"]
        ELSE [ai |-> [ai EXCEPT !.PublicKey = parts[1],
                                !.LocationCommitment = parts[2],
                                !.ZKPProof = parts[3]],
              err |-> NoError]

\* base64.StdEncoding.EncodeToString
B64Encode(s) == [i \in 1..Len(s) |-> 1000 + s[i]]

\* base64.StdEncoding.DecodeString: fails on a character outside the alphabet
B64Valid(s) == \A i \in 1..Len(s) : s[i] >= 1000 /\ s[i] <= 1255

B64Decode(s) == [i \in 1..Len(s) |-> s[i] - 1000]

\* encoding/json writes a Go string as a JSON string: bytes that are not
\* valid UTF-8 become U+FFFD; every other byte is written so that it reads
\* back as itself (escaped where JSON requires it)
JsonString(s) == [i \in 1..Len(s) |-> IF s[i] = 255 THEN 65533 ELSE s[i]]

RECURSIVE GoString(_)
\* encoding/json reads a JSON string into a Go string: UTF-8, so U+FFFD
\* becomes the bytes EF BF BD
GoString(js) ==
    IF js = <<>> THEN <<>>
    ELSE (IF Head(js) = 65533 THEN <<239, 191, 189>> ELSE <<Head(js)>>)
            \o GoString(Tail(js))

\* ai.MarshalJSON(): the JSON object.  The four shadowing fields carry the
\* tags publicKey, locationCommitment, nonceValue, nonceHash; the embedded
\* Alias adds zkpProof and, untagged, NonceValue and NonceHash.
MarshalJSON(ai) ==
    [publicKey |-> JsonString(B64Encode(ai.PublicKey)),
     locationCommitment |-> JsonString(B64Encode(ai.LocationCommitment)),
     zkpProof |-> JsonString(ai.ZKPProof),
     NonceValue |-> JsonString(ai.NonceValue),
     NonceHash |-> JsonString(ai.NonceHash),
     nonceValue |-> JsonString(B64Encode(ai.NonceValue)),
     nonceHash |-> JsonString(B64Encode(ai.NonceHash))]

\* A text that is not JSON, as the "invalid" of the test
NotJson == [text |-> "invalid"]

\* ai.UnmarshalJSON(data): json.Unmarshal fills the fields of aux (through
\* the Alias: ZKPProof, NonceValue, NonceHash of ai), then the four tagged
\* fields are base64-decoded in turn, returning at the first error
UnmarshalJSON(ai, data) ==
    IF "text" \in DOMAIN data
    THEN [ai |-> ai, err |-> "invalid character"]
    ELSE LET a == [ai EXCEPT !.ZKPProof = GoString(data.zkpProof),
                             !.NonceValue = GoString(data.NonceValue),
                             !.NonceHash = GoString(data.NonceHash)]
             pubKey == GoString(data.publicKey)
             locCommit == GoString(data.locationCommitment)
             nonceValue == GoString(data.nonceValue)
             nonceHash == GoString(data.nonceHash)
             a1 == [a EXCEPT !.PublicKey = B64Decode(pubKey)]
             a2 == [a1 EXCEPT !.LocationCommitment = B64Decode(locCommit)]
             a3 == [a2 EXCEPT !.NonceValue = B64Decode(nonceValue)]
             a4 == [a3 EXCEPT !.NonceHash = B64Decode(nonceHash)]
         IN  IF ~B64Valid(pubKey) THEN [ai |-> a, err |-> "illegal base64 data"]
             ELSE IF ~B64Valid(locCommit) THEN [ai |-> a1, err |-> "illegal base64 data"]
             ELSE IF ~B64Valid(nonceValue) THEN [ai |-> a2, err |-> "illegal base64 data"]
             ELSE IF ~B64Valid(nonceHash) THEN [ai |-> a3, err |-> "illegal base64 data"]
             ELSE [ai |-> a4, err |-> NoError]

\* The byte strings handed to UnmarshalBinary besides encodings
MaxLen == 4

BinaryInputs == UNION {[1..n -> {0, 33}] : n \in 0..MaxLen}

\* The JSON texts handed to UnmarshalJSON besides encodings: not JSON, or an
\* object whose four tagged fields are base64 or not
JsonInputs ==
    {NotJson} \cup
    {[publicKey |-> pk, locationCommitment |-> lc, zkpProof |-> <<33>>,
      NonceValue |-> <<>>, NonceHash |-> <<>>, nonceValue |-> nv, nonceHash |-> nh] :
        pk \in {<<1033>>, <<33>>}, lc \in {<<1033>>, <<33>>},
        nv \in {<<1033>>, <<33>>}, nh \in {<<1033>>, <<33>>}}

progVars == <<now, registryVars, issueVars, batch, extVars>>

MarshalBinaryCall ==
    \E x \in Records :
        /\ calc' = [op |-> "MarshalBinary", in |-> x, out |-> MarshalBinary(x),
                    src |-> {}]
        /\ UNCHANGED progVars

\* UnmarshalBinary into an empty AddressInfo, of the encoding just made (src
\* is then the record that was encoded) or of some other byte string
UnmarshalBinaryCall ==
    /\ \/ /\ calc.op = "MarshalBinary"
          /\ calc' = [op |-> "UnmarshalBinary", in |-> calc.out,
                      out |-> UnmarshalBinary(EmptyAddressInfo, calc.out),
                      src |-> {calc.in}]
       \/ \E data \in BinaryInputs :
            calc' = [op |-> "UnmarshalBinary", in |-> data,
                     out |-> UnmarshalBinary(EmptyAddressInfo, data), src |-> {}]
    /\ UNCHANGED progVars

MarshalJSONCall ==
    \E x \in Records :
        /\ calc' = [op |-> "MarshalJSON", in |-> x, out |-> MarshalJSON(x), src |-> {}]
        /\ UNCHANGED progVars

UnmarshalJSONCall ==
    /\ \/ /\ calc.op = "MarshalJSON"
          /\ calc' = [op |-> "UnmarshalJSON", in |-> calc.out,
                      out |-> UnmarshalJSON(EmptyAddressInfo, calc.out),
                      src |-> {calc.in}]
       \/ \E data \in JsonInputs :
            calc' = [op |-> "UnmarshalJSON", in |-> data,
                     out |-> UnmarshalJSON(EmptyAddressInfo, data), src |-> {}]
    /\ UNCHANGED progVars

NextCodec ==
    \/ MarshalBinaryCall
    \/ UnmarshalBinaryCall
    \/ MarshalJSONCall
    \/ UnmarshalJSONCall

SpecCodec == Init /\ [][NextCodec]_vars

----------------------------------------------------------------------------
(* ConvertToPrecisionGrid.  Coordinates are in units of 1e-7 degree, as    *)
(* above; metres per degree are in units of 0.01 m; precision is a whole   *)
(* number of metres.  The products are formed exactly (MulDivMod), where   *)
(* the code rounds to float64: the two agree on the inputs of the model.   *)

\* const latDegreeToMeter = 111319.9
latDegreeToMeter == 11131990

\* longitudeDegreeToMeter := math.Cos(lat*math.Pi/180) * latDegreeToMeter,
\* for the latitudes of the model, to 0.01 m
longitudeDegreeToMeter(lat) ==
    CASE Abs(lat) < Degree \div 1000 -> 11131990
      [] Abs(lat) = Degree -> 11130295
      [] Abs(lat) = 407128000 -> 8437922
      [] Abs(lat) = 45 * Degree -> 7871506
      [] Abs(lat) = 60 * Degree -> 5565995
      [] Abs(lat) = 90 * Degree -> 0

RECURSIVE MulDivMod(_, _, _)
\* Quotient and remainder of a * b by d (a, b >= 0, d > 0), formed without
\* an intermediate value beyond 31 bits
MulDivMod(a, b, d) ==
    IF b = 0 THEN [q |-> 0, r |-> 0]
    ELSE LET h == MulDivMod(a, b \div 2, d)
             t == 2 * h.r
             u == (t % d) + (b % 2) * (a % d)
         IN  [q |-> 2 * h.q + (b % 2) * (a \div d) + (t \div d) + (u \div d),
              r |-> u % d]

\* Variant: int(x) of the quotient, without math.Round
GridIndex_Truncate(x, perDegree, precision) ==
    LET m == MulDivMod(Abs(x), perDegree, 100 * Degree)
        n == m.q \div precision
    IN  IF x < 0 THEN -n ELSE n

\* int(math.Round(x * perDegree / precision)): halves round away from zero
GridIndex(x, perDegree, precision) ==
    LET m == MulDivMod(Abs(x), perDegree, 100 * Degree)
        n == (2 * m.q + precision + (IF 2 * m.r >= 100 * Degree THEN 1 ELSE 0))
                \div (2 * precision)
    IN  IF x < 0 THEN -n ELSE n

\* ConvertToPrecisionGrid(lat, lon, precision): the SafeLatitudeLongitude
\* (nil is <<>>) and the error
ConvertToPrecisionGrid(lat, lon, precision) ==
    IF precision <= 0
    THEN [loc |-> <<>>, err |-> "precision must be greater than zero"]
    ELSE [loc |-> <<GridIndex(lat, latDegreeToMeter, precision),
                    GridIndex(lon, longitudeDegreeToMeter(lat), precision)>>,
          err |-> NoError]

\* The arguments ConvertToPrecisionGrid is called with
GridLats ==
    {0, 4000, Degree, 407128000, 45 * Degree, 60 * Degree, 90 * Degree,
     -60 * Degree, -90 * Degree}

GridLons == {0, -740060000, 10 * Degree, 180 * Degree}

Precisions == {-1, 0, 100, 1000}

ConvertCall ==
    \E lat \in GridLats, lon \in GridLons, precision \in Precisions :
        /\ calc' = [op |-> "ConvertToPrecisionGrid", in |-> <<lat, lon, precision>>,
                    out |-> ConvertToPrecisionGrid(lat, lon, precision), src |-> {}]
        /\ UNCHANGED progVars

NextGrid == ConvertCall

SpecGrid == Init /\ [][NextGrid]_vars

----------------------------------------------------------------------------
(* CommitLocation.  The randomness of the post-quantum primitives is an    *)
(* argument: rnd.keypair is what generate_keypair draws, rnd.encaps what   *)
(* encapsulate draws, and rnd.fail names the primitive that fails, if any. *)
(* Hashes and group operations are symbolic: equal results come from equal *)
(* arguments only.                                                         *)

\* common.GenerateQuantumKeyPair(): public key, secret key, error
GenerateQuantumKeyPair(rnd) ==
    IF rnd.fail = "keypair"
    THEN [publicKey |-> <<>>, secretKey |-> <<>>, err |-> "failed to generate key pair"]
    ELSE [publicKey |-> <<"pk", rnd.keypair>>, secretKey |-> <<"sk", rnd.keypair>>,
          err |-> NoError]

\* common.Encapsulate(publicKey): the shared secret, error
Encapsulate(publicKey, rnd) ==
    IF rnd.fail = "encapsulate"
    THEN [sharedSecret |-> <<>>, err |-> "encapsulation failed"]
    ELSE [sharedSecret |-> <<"ss", publicKey, rnd.encaps>>, err |-> NoError]

\* common.QuantumDeriveEdwardsPoint: the point picked from the seed
\* sha256(sharedSecret || quantumPrivateKey)
QuantumDeriveEdwardsPoint(quantumPublicKey, quantumPrivateKey, rnd) ==
    LET e == Encapsulate(quantumPublicKey, rnd)
        seed == <<"sha256", e.sharedSecret, quantumPrivateKey>>
    IN  IF e.err # NoError
        THEN [point |-> <<>>, err |-> e.err]
        ELSE [point |-> <<"pick", seed>>, err |-> NoError]

\* CommitLocation(classicalPrivateKey, location): the commitment and the
\* error.  The body does not use location.
CommitLocation(classicalPrivateKey, location, rnd) ==
    LET k == GenerateQuantumKeyPair(rnd)
        p == QuantumDeriveEdwardsPoint(k.publicKey, k.secretKey, rnd)
    IN  IF k.err # NoError
        THEN [commitment |-> <<>>, err |-> "failed to generate quantum key pair"]
        ELSE IF p.err # NoError
        THEN [commitment |-> <<>>, err |-> "failed to derive Edwards point"]
        ELSE [commitment |-> <<"mul", classicalPrivateKey, p.point>>, err |-> NoError]

\* The arguments of the model's CommitLocation calls: two private scalars,
\* the bytes of three grid locations, and the primitives' randomness
Scalars == {"a", "b"}

Locations == {<<0, 0>>, <<45321, -62446>>, <<45321, -62445>>}

Randomness ==
    [keypair : {1, 2}, encaps : {1, 2}, fail : {"none", "keypair", "encapsulate"}]

\* CommitLocation is called; src keeps the call made before this one
CommitCall ==
    \E classicalPrivateKey \in Scalars, location \in Locations, rnd \in Randomness :
        /\ calc' = [op |-> "CommitLocation",
                    in |-> <<classicalPrivateKey, location, rnd>>,
                    out |-> CommitLocation(classicalPrivateKey, location, rnd),
                    src |-> IF calc.op = "CommitLocation"
                            THEN {[in |-> calc.in, out |-> calc.out]}
                            ELSE {}]
        /\ UNCHANGED progVars

NextCommit == CommitCall

SpecCommit == Init /\ [][NextCommit]_vars

----------------------------------------------------------------------------
(* Issuances for coordinates of one grid cell: callers pass coordinates    *)
(* 0.0004 degrees apart (44.5 m of latitude) and coordinates far away      *)

\* GetDynamicPrecision(): 100.0
GetDynamicPrecision == 100

CellCoords == {<<0, 0>>, <<4000, 0>>, <<45 * Degree, 0>>}

CellIssue ==
    \E t \in Threads, c \in CellCoords :
        /\ GenerateAddressEnter(t, c[1], c[2], 256)
        /\ issueSeq' <= MaxIssues

NextCell ==
    \/ CellIssue
    \/ KeysTask
    \/ CommitTask
    \/ ProofTask
    \/ NonceTask
    \/ Join
    \/ Returned

SpecCell == Init /\ [][NextCell]_vars

----------------------------------------------------------------------------
(* GenerateAddress statement by statement: each of the four goroutines      *)
(* calls its function, assigns the shared variables one at a time and runs  *)
(* its deferred wg.Done(); the caller blocks in wg.Wait()                   *)

\* GenerateAddress(lat, lon, bits) up to wg.Add(4) and the four go statements
FanEnter(lat, lon, bits) ==
    /\ ~crashed
    /\ fan.pc = "idle"
    /\ LET err == CheckArguments(lat, lon, bits)
           key == CoordKey(lat, lon)
           g == lruGet(addressCache, key)
           call == [IdleFan EXCEPT !.lat = lat, !.lon = lon, !.bits = bits]
       IN  IF err # NoError
           THEN /\ fan' = [call EXCEPT !.pc = "done", !.ret = [ai |-> {}, err |-> err]]
                /\ UNCHANGED <<addressCache, issueSeq, useOrder>>
           ELSE IF g.ok
           THEN /\ fan' = [call EXCEPT !.pc = "done", !.key = key,
                                       !.ret = [ai |-> g.value, err |-> NoError]]
                /\ addressCache' = g.cache
                /\ useOrder' = Touch(useOrder, key)
                /\ UNCHANGED issueSeq
           ELSE /\ fan' = [call EXCEPT !.pc = "wait", !.key = key,
                                       !.seq = issueSeq + 1, !.wg = 4,
                                       !.task = [i \in 0..3 |-> "call"]]
                /\ issueSeq' = issueSeq + 1
                /\ UNCHANGED <<addressCache, useOrder>>
    /\ UNCHANGED <<now, registryVars, thr, crashed, lastOk, faults, batch, calc,
                   noncesMutex, hashContext, proc, am>>

\* Goroutine i calls its function and holds what it returned in its own
\* locals: GenerateCryptoKeys (0), CommitLocation after the grid conversion
\* (1), zkp.Prover (2), state.GenerateOrUpdateNonce (3).  ok: the function
\* succeeded.  A failed Prover returns a nil proof, and r.R then panics.
FanCall(i, ok) ==
    /\ ~crashed
    /\ fan.pc = "wait"
    /\ fan.task[i] = "call"
    /\ LET r == GenerateOrUpdateNonce(nonces, fan.key, now, ok, nonceSeq + 1)
           val == CASE i = 0 -> IF ok THEN {<<"pk", fan.seq>>} ELSE {}
                    [] i = 1 -> IF ok THEN {<<"lc", fan.seq>>} ELSE {}
                    [] i = 2 -> {<<"zkp", fan.key, fan.bits, fan.seq>>}
                    [] i = 3 -> r.ret
           err == CASE i = 0 -> IF ok THEN NoError ELSE "error generating crypto keys"
                    [] i = 1 -> IF ok THEN NoError
                                ELSE "failed to generate quantum key pair"
                    [] OTHER -> NoError
       IN  /\ IF i = 2 /\ ~ok
              THEN /\ fan' = [fan EXCEPT !.pc = "panic"]
                   /\ crashed' = TRUE
              ELSE /\ fan' = [fan EXCEPT !.task[i] = "result",
                                         !.local[i] = [val |-> val, err |-> err]]
                   /\ UNCHANGED crashed
           /\ IF i = 3
              THEN /\ nonces' = r.reg
                   /\ nonceSeq' = IF r.drew THEN nonceSeq + 1 ELSE nonceSeq
                   /\ issued' = issued \cup r.ret
              ELSE UNCHANGED <<nonces, nonceSeq, issued>>
    /\ UNCHANGED <<now, lastOp, addressCache, issueSeq, thr, lastOk, useOrder, faults,
                   batch, calc, noncesMutex, hashContext, proc, am>>

\* Goroutine i assigns its result: publicKey = pk, locationCommitment = lc,
\* zkpProofStr = ..., nonce = n
FanWriteResult(i) ==
    /\ ~crashed
    /\ fan.pc = "wait"
    /\ fan.task[i] = "result"
    /\ fan' = CASE i = 0 -> [fan EXCEPT !.publicKey = fan.local[0].val,
                                        !.task[0] = "err"]
                [] i = 1 -> [fan EXCEPT !.locationCommitment = fan.local[1].val,
                                        !.task[1] = "err"]
                [] i = 2 -> [fan EXCEPT !.zkpProofStr =
                                            CHOOSE x \in fan.local[2].val : TRUE,
                                        !.task[2] = "exit"]
                [] i = 3 -> [fan EXCEPT !.nonce = fan.local[3].val,
                                        !.task[3] = "exit"]
    /\ UNCHANGED <<now, registryVars, issueVars, batch, calc,
                   noncesMutex, hashContext, proc, am>>

\* Goroutine i, 0 or 1, assigns errs[i] = err
FanWriteErr(i) ==
    /\ ~crashed
    /\ fan.pc = "wait"
    /\ i \in {0, 1}
    /\ fan.task[i] = "err"
    /\ fan' = [fan EXCEPT !.errs[i] = fan.local[i].err, !.task[i] = "exit"]
    /\ UNCHANGED <<now, registryVars, issueVars, batch, calc,
                   noncesMutex, hashContext, proc, am>>

\* Goroutine i returns: its deferred wg.Done() runs
FanDone(i) ==
    /\ ~crashed
    /\ fan.pc = "wait"
    /\ fan.task[i] = "exit"
    /\ fan' = [fan EXCEPT !.wg = @ - 1, !.task[i] = "done"]
    /\ UNCHANGED <<now, registryVars, issueVars, batch, calc,
                   noncesMutex, hashContext, proc, am>>

\* Variant: the caller does not block until the counter is zero
FanWait_NoBarrier ==
    /\ ~crashed
    /\ fan.pc = "wait"
    /\ fan' = [fan EXCEPT !.pc = "joined"]
    /\ UNCHANGED <<now, registryVars, issueVars, batch, calc,
                   noncesMutex, hashContext, proc, am>>

\* wg.Wait() returns once the counter is zero
FanWait ==
    /\ ~crashed
    /\ fan.pc = "wait"
    /\ fan.wg = 0
    /\ fan' = [fan EXCEPT !.pc = "joined"]
    /\ UNCHANGED <<now, registryVars, issueVars, batch, calc,
                   noncesMutex, hashContext, proc, am>>

\* GenerateAddress after wg.Wait(): the error loop over errs, then the
\* AddressInfo from publicKey, locationCommitment, zkpProofStr and nonce, and
\* addressCache.Add.  A nil point or a nil nonce is a nil dereference.
FanFinish ==
    /\ ~crashed
    /\ fan.pc = "joined"
    /\ LET err == FirstError(fan.errs)
       IN  IF err # NoError
           THEN /\ fan' = [fan EXCEPT !.pc = "done", !.ret = [ai |-> {}, err |-> err]]
                /\ UNCHANGED <<addressCache, crashed, useOrder>>
           ELSE IF fan.publicKey = {} \/ fan.locationCommitment = {} \/ fan.nonce = {}
           THEN /\ fan' = [fan EXCEPT !.pc = "panic"]
                /\ crashed' = TRUE
                /\ UNCHANGED <<addressCache, useOrder>>
           ELSE LET pk == CHOOSE x \in fan.publicKey : TRUE
                    lc == CHOOSE x \in fan.locationCommitment : TRUE
                    n == CHOOSE x \in fan.nonce : TRUE
                    ai == AddressInfo(EncodeRaw(pk), EncodeRaw(lc), fan.zkpProofStr,
                                      EncodeStd(n.Value), EncodeStd(n.Hash))
                IN  /\ fan' = [fan EXCEPT !.pc = "done",
                                          !.ret = [ai |-> {ai}, err |-> NoError]]
                    /\ addressCache' = lruAdd(addressCache, fan.key, ai)
                    /\ useOrder' = Touch(useOrder, fan.key)
                    /\ UNCHANGED crashed
    /\ UNCHANGED <<now, registryVars, issueSeq, thr, lastOk, faults, batch, calc,
                   noncesMutex, hashContext, proc, am>>

\* The caller has taken the result
FanReturn ==
    /\ ~crashed
    /\ fan.pc = "done"
    /\ fan' = IdleFan
    /\ UNCHANGED <<now, registryVars, issueVars, batch, calc,
                   noncesMutex, hashContext, proc, am>>

NextFan ==
    \/ \E c \in Calls : FanEnter(c[1], c[2], c[3]) /\ issueSeq' <= MaxIssues
    \/ \E i \in 0..3, ok \in BOOLEAN : FanCall(i, ok) /\ nonceSeq' <= MaxNonces
    \/ \E i \in 0..3 : FanWriteResult(i)
    \/ \E i \in 0..1 : FanWriteErr(i)
    \/ \E i \in 0..3 : FanDone(i)
    \/ FanWait
    \/ FanFinish
    \/ FanReturn
    \/ Expire

SpecFan == Init /\ [][NextFan]_vars

----------------------------------------------------------------------------
(* Termination: callers of GenerateAddressesBatch, whose members are        *)
(* concurrent callers of GenerateAddress, with the clock and the pruner,    *)
(* under a scheduler that lets every goroutine that can run take its step   *)

\* A step of goroutine t or of one of the four goroutines it started
Progress(t) ==
    \/ BatchMemberStart(t) /\ issueSeq' <= MaxIssues
    \/ TaskKeys(t, TRUE)
    \/ TaskCommit(t, TRUE)
    \/ TaskProof(t, TRUE)
    \/ \E randOk \in BOOLEAN :
           TaskNonce(t, randOk) /\ nonceSeq' <= MaxNonces /\ faults' <= MaxFaults
    \/ GenerateAddressJoin(t)
    \/ BatchMemberDone(t)

\* A batch is called only if its members can all fan out within MaxIssues
NextTerm ==
    \/ \E coords \in BatchInputs :
           /\ BatchEnter(coords, 256)
           /\ issueSeq + Len(coords) <= MaxIssues
    \/ BatchMember
    \/ KeysTask
    \/ CommitTask
    \/ ProofTask
    \/ NonceTask
    \/ Join
    \/ BatchMemberReturned
    \/ BatchJoin
    \/ BatchReturn
    \/ Expire
    \/ Pruner

\* The Go scheduler runs every runnable goroutine: weak fairness for each
\* goroutine's steps and for the batch's return from wg.Wait()
SpecTerm ==
    /\ Init
    /\ [][NextTerm]_vars
    /\ \A t \in Threads : WF_vars(Progress(t))
    /\ WF_vars(BatchJoin)

----------------------------------------------------------------------------
(* The registry statement by statement: goroutines inside                   *)
(* GenerateOrUpdateNonce, ValidateNonce and PruneExpiredNonces, with        *)
(* noncesMutex and the shared hashContext                                   *)

otherVars == <<lastOp, addressCache, issueSeq, thr, crashed, lastOk, useOrder, faults,
               batch, calc, fan, am>>

\* Goroutine p calls one of the registry's functions
ProcStart(p, op, address, cand) ==
    /\ proc[p].pc = "idle"
    /\ proc' = [proc EXCEPT ![p] =
            [IdleProc EXCEPT !.pc = IF op = "validate" THEN "rlock" ELSE "lock",
                             !.op = op, !.address = address, !.cand = cand]]
    /\ UNCHANGED <<now, nonces, nonceSeq, issued, noncesMutex, hashContext, otherVars>>

\* Variant: Lock() does not wait for the readers to leave
RegLock_IgnoreReaders(p) ==
    /\ proc[p].pc = "lock"
    /\ noncesMutex.writer = {}
    /\ noncesMutex' = [noncesMutex EXCEPT !.writer = {p}]
    /\ proc' = [proc EXCEPT ![p].pc = IF proc[p].op = "prune" THEN "sweep" ELSE "lookup"]
    /\ UNCHANGED <<now, nonces, nonceSeq, issued, hashContext, otherVars>>

\* noncesMutex.Lock(): granted when no writer and no reader holds the mutex
RegLock(p) ==
    /\ proc[p].pc = "lock"
    /\ noncesMutex.writer = {}
    /\ noncesMutex.readers = {}
    /\ noncesMutex' = [noncesMutex EXCEPT !.writer = {p}]
    /\ proc' = [proc EXCEPT ![p].pc = IF proc[p].op = "prune" THEN "sweep" ELSE "lookup"]
    /\ UNCHANGED <<now, nonces, nonceSeq, issued, hashContext, otherVars>>

\* noncesMutex.RLock(): granted when no writer holds the mutex
RegRLock(p) ==
    /\ proc[p].pc = "rlock"
    /\ noncesMutex.writer = {}
    /\ noncesMutex' = [noncesMutex EXCEPT !.readers = @ \cup {p}]
    /\ proc' = [proc EXCEPT ![p].pc = "read"]
    /\ UNCHANGED <<now, nonces, nonceSeq, issued, hashContext, otherVars>>

\* GenerateOrUpdateNonce: the lookup, and the return of a nonce that has not
\* expired
GenLookup(p) ==
    /\ proc[p].pc = "lookup"
    /\ LET a == proc[p].address
       IN  IF a \in DOMAIN nonces /\ now - nonces[a].Timestamp <= nonceLifetime
           THEN /\ proc' = [proc EXCEPT ![p].pc = "unlock", ![p].ret = {nonces[a]},
                                        ![p].ok = TRUE]
                /\ issued' = issued \cup {nonces[a]}
           ELSE /\ proc' = [proc EXCEPT ![p].pc = "rand"]
                /\ UNCHANGED issued
    /\ UNCHANGED <<now, nonces, nonceSeq, noncesMutex, hashContext, otherVars>>

\* GenerateOrUpdateNonce: rand.Read(value); on an error, return nil
GenRand(p, randOk) ==
    /\ proc[p].pc = "rand"
    /\ IF randOk
       THEN /\ proc' = [proc EXCEPT ![p].pc = "hashReset", ![p].value = nonceSeq + 1]
            /\ nonceSeq' = nonceSeq + 1
       ELSE /\ proc' = [proc EXCEPT ![p].pc = "unlock"]
            /\ UNCHANGED nonceSeq
    /\ UNCHANGED <<now, nonces, issued, noncesMutex, hashContext, otherVars>>

\* generateNonceHash: hashContext.Reset()
HashReset(p) ==
    /\ proc[p].pc = "hashReset"
    /\ hashContext' = <<>>
    /\ proc' = [proc EXCEPT ![p].pc = "hashAddress"]
    /\ UNCHANGED <<now, nonces, nonceSeq, issued, noncesMutex, otherVars>>

\* generateNonceHash: hashContext.Write([]byte(address))
HashWriteAddress(p) ==
    /\ proc[p].pc = "hashAddress"
    /\ hashContext' = Append(hashContext, proc[p].address)
    /\ proc' = [proc EXCEPT ![p].pc = "hashValue"]
    /\ UNCHANGED <<now, nonces, nonceSeq, issued, noncesMutex, otherVars>>

\* generateNonceHash: hashContext.Write(value)
HashWriteValue(p) ==
    /\ proc[p].pc = "hashValue"
    /\ hashContext' = Append(hashContext, proc[p].value)
    /\ proc' = [proc EXCEPT ![p].pc = "hashSum"]
    /\ UNCHANGED <<now, nonces, nonceSeq, issued, noncesMutex, otherVars>>

\* generateNonceHash: return hashContext.Sum(nil), the hash of what the
\* context holds
HashSum(p) ==
    /\ proc[p].pc = "hashSum"
    /\ proc' = [proc EXCEPT ![p].pc = "store", ![p].hash = <<"blake3">> \o hashContext]
    /\ UNCHANGED <<now, nonces, nonceSeq, issued, noncesMutex, hashContext, otherVars>>

\* GenerateOrUpdateNonce: timestamp, nonces[address] = nonce, return &nonce
GenStore(p) ==
    /\ proc[p].pc = "store"
    /\ LET nonce == Nonce(proc[p].address, proc[p].value, proc[p].hash, now)
       IN  /\ nonces' = MapPut(nonces, proc[p].address, nonce)
           /\ issued' = issued \cup {nonce}
           /\ proc' = [proc EXCEPT ![p].pc = "unlock", ![p].ret = {nonce}, ![p].ok = TRUE]
    /\ UNCHANGED <<now, nonceSeq, noncesMutex, hashContext, otherVars>>

\* PruneExpiredNonces: the loop that deletes the expired entries
PruneSweep(p) ==
    /\ proc[p].pc = "sweep"
    /\ nonces' = PruneExpiredNonces(nonces, now)
    /\ proc' = [proc EXCEPT ![p].pc = "unlock", ![p].ok = TRUE]
    /\ UNCHANGED <<now, nonceSeq, issued, noncesMutex, hashContext, otherVars>>

\* ValidateNonce: the lookup and the three comparisons
ValidateRead(p) ==
    /\ proc[p].pc = "read"
    /\ proc' = [proc EXCEPT
            ![p].pc = "runlock",
            ![p].ok = \E c \in proc[p].cand :
                          ValidateNonce(nonces, proc[p].address, c, now)]
    /\ UNCHANGED <<now, nonces, nonceSeq, issued, noncesMutex, hashContext, otherVars>>

\* The deferred noncesMutex.Unlock()
RegUnlock(p) ==
    /\ proc[p].pc = "unlock"
    /\ noncesMutex' = [noncesMutex EXCEPT !.writer = @ \ {p}]
    /\ proc' = [proc EXCEPT ![p].pc = "done"]
    /\ UNCHANGED <<now, nonces, nonceSeq, issued, hashContext, otherVars>>

\* The deferred noncesMutex.RUnlock()
RegRUnlock(p) ==
    /\ proc[p].pc = "runlock"
    /\ noncesMutex' = [noncesMutex EXCEPT !.readers = @ \ {p}]
    /\ proc' = [proc EXCEPT ![p].pc = "done"]
    /\ UNCHANGED <<now, nonces, nonceSeq, issued, hashContext, otherVars>>

\* The caller has taken the result
ProcReturn(p) ==
    /\ proc[p].pc = "done"
    /\ proc' = [proc EXCEPT ![p] = IdleProc]
    /\ UNCHANGED <<now, nonces, nonceSeq, issued, noncesMutex, hashContext, otherVars>>

NextLock ==
    \/ \E p \in Procs, a \in Identities : ProcStart(p, "issue", a, {})
    \/ \E p \in Procs, a \in Identities, c \in issued : ProcStart(p, "validate", a, {c})
    \/ \E p \in Procs : ProcStart(p, "prune", <<>>, {})
    \/ \E p \in Procs : RegLock(p)
    \/ \E p \in Procs : RegRLock(p)
    \/ \E p \in Procs : GenLookup(p)
    \/ \E p \in Procs, randOk \in BOOLEAN : GenRand(p, randOk) /\ nonceSeq' <= MaxNonces
    \/ \E p \in Procs : HashReset(p)
    \/ \E p \in Procs : HashWriteAddress(p)
    \/ \E p \in Procs : HashWriteValue(p)
    \/ \E p \in Procs : HashSum(p)
    \/ \E p \in Procs : GenStore(p)
    \/ \E p \in Procs : PruneSweep(p)
    \/ \E p \in Procs : ValidateRead(p)
    \/ \E p \in Procs : RegUnlock(p)
    \/ \E p \in Procs : RegRUnlock(p)
    \/ \E p \in Procs : ProcReturn(p)
    \/ Expire

SpecLock == Init /\ [][NextLock]_vars

----------------------------------------------------------------------------
(* Callers that ask for proofs of different bit-lengths *)

\* GenerateAddress(lat, lon, bits) arguments: one pair of coordinates with
\* two bit-lengths, and another pair
BitsCalls == {<<0, 0, 128>>, <<0, 0, 256>>, <<40 * Degree, 0, 256>>}

NextBits ==
    \/ \E t \in Threads, c \in BitsCalls :
           /\ GenerateAddressEnter(t, c[1], c[2], c[3])
           /\ issueSeq' <= MaxIssues
    \/ KeysTask
    \/ CommitTask
    \/ ProofTask
    \/ NonceTask
    \/ Join
    \/ Returned

SpecBits == Init /\ [][NextBits]_vars

----------------------------------------------------------------------------
(* A coordinate issued again after its cache entry was evicted: the calls   *)
(* of SpecLRU, with the clock advancing once the cache has evicted an entry *)

\* The clock advances between two calls, once an entry has been evicted
NextEvict ==
    \/ NextLRU
    \/ /\ Len(useOrder) > CacheSize
       /\ \A t \in LruThreads : thr[t].pc = "idle"
       /\ Tick

SpecEvict == Init /\ [][NextEvict]_vars

----------------------------------------------------------------------------
(* The account ledger: AccountManager.CreateAccount and Transfer.  Balances *)
(* and amounts are float64 values that are whole numbers.                   *)

\* CreateAccount(address, initialBalance): an existing address is refused;
\* otherwise the account is added and its balance appended to the matrix
CreateAccount(address, initialBalance) ==
    /\ IF address \in DOMAIN am.accounts
       THEN am' = [am EXCEPT
                !.calls = @ + 1,
                !.last = [op |-> "CreateAccount", from |-> address, to |-> "",
                          amount |-> initialBalance, err |-> "account already exists",
                          pre |-> am.accounts]]
       ELSE am' = [am EXCEPT
                !.accounts = MapPut(@, address, initialBalance),
                !.state = Append(@, initialBalance),
                !.calls = @ + 1,
                !.last = [op |-> "CreateAccount", from |-> address, to |-> "",
                          amount |-> initialBalance, err |-> NoError,
                          pre |-> am.accounts]]
    /\ UNCHANGED <<now, registryVars, issueVars, batch, calc, fan, noncesMutex,
                   hashContext, proc>>

\* Rows fromIndex and toIndex of the matrix are set to the two balances
SetRows(state, fromIndex, fromBalance, toIndex, toBalance) ==
    [[state EXCEPT ![fromIndex + 1] = fromBalance] EXCEPT ![toIndex + 1] = toBalance]

\* Transfer(from, to, amount).  fromIndex, toIndex: what getAccountIndex
\* returns for from and to, the position of the address in one iteration
\* over the map, whose order Go does not fix.  fromAccount and toAccount are
\* pointers: with from = to both updates go to the same account.
Transfer(from, to, amount, fromIndex, toIndex) ==
    /\ fromIndex < Cardinality(DOMAIN am.accounts) \/ fromIndex = 0
    /\ toIndex < Cardinality(DOMAIN am.accounts) \/ toIndex = 0
    /\ LET err == IF from \notin DOMAIN am.accounts THEN "sender account not found"
                  ELSE IF to \notin DOMAIN am.accounts THEN "recipient account not found"
                  ELSE IF am.accounts[from] < amount THEN "insufficient funds"
                  ELSE NoError
           debited == [am.accounts EXCEPT ![from] = @ - amount]
           credited == [debited EXCEPT ![to] = @ + amount]
           last == [op |-> "Transfer", from |-> from, to |-> to, amount |-> amount,
                    err |-> err, pre |-> am.accounts]
       IN  IF err # NoError
           THEN am' = [am EXCEPT !.calls = @ + 1, !.last = last]
           ELSE am' = [am EXCEPT
                    !.accounts = credited,
                    !.state = SetRows(@, fromIndex, credited[from], toIndex, credited[to]),
                    !.calls = @ + 1,
                    !.last = last]
    /\ UNCHANGED <<now, registryVars, issueVars, batch, calc, fan, noncesMutex,
                   hashContext, proc>>

\* Calls on the ledger in one run
MaxCalls == 4

Addresses == {"alice", "bob", "carol"}

\* Initial balances, none negative
InitialBalances == {0, 5}

\* Amounts of transfers: negative, zero, within and beyond a balance of 5
Amounts == {-5, 0, 3, 10}

NextLedger ==
    \/ \E address \in Addresses \ {"carol"}, initialBalance \in InitialBalances :
           /\ am.calls < MaxCalls
           /\ CreateAccount(address, initialBalance)
    \/ \E from \in Addresses, to \in Addresses, amount \in Amounts :
           \E fromIndex \in 0..1, toIndex \in 0..1 :
               /\ am.calls < MaxCalls
               /\ Transfer(from, to, amount, fromIndex, toIndex)

SpecLedger == Init /\ [][NextLedger]_vars

----------------------------------------------------------------------------
(* Properties of the nonce registry, checked under SpecNonce *)

\* The entry of address in registry reg is still within its lifetime at t
ActiveAt(reg, address, t) ==
    address \in DOMAIN reg /\ t - reg[address].Timestamp <= nonceLifetime

\* Registry post is registry pre with the entry of address set to n
StoredOver(pre, post, address, n) ==
    /\ DOMAIN post = (DOMAIN pre) \cup {address}
    /\ post[address] = n
    /\ \A b \in (DOMAIN pre) \ {address} : post[b] = pre[b]

\* n is a new nonce for address drawn at time t
NewNonceFor(n, address, t) ==
    /\ n.Address = address
    /\ n.Timestamp = t
    /\ n.Hash = generateNonceHash(address, n.Value)
    /\ \A m \in issued \ {n} : m.Value # n.Value

\* C1 as stated: GenerateOrUpdateNonce(id) at time t returns the stored nonce
\* and leaves the registry unchanged when id has an entry with
\* t - issuedAt <= 3600; otherwise it stores and returns a new nonce
\* {id, fresh value, hash, issuedAt = t} in place of any previous entry.
C1_IssueAlwaysStores ==
    lastOp.op = "issue" =>
        IF ActiveAt(lastOp.pre, lastOp.address, lastOp.t)
        THEN /\ lastOp.ret = {lastOp.pre[lastOp.address]}
             /\ nonces = lastOp.pre
        ELSE \E n \in lastOp.ret :
                /\ lastOp.ret = {n}
                /\ NewNonceFor(n, lastOp.address, lastOp.t)
                /\ StoredOver(lastOp.pre, nonces, lastOp.address, n)

\* C1 amended: as C1 when crypto/rand succeeds; when id has no active entry
\* and crypto/rand fails, GenerateOrUpdateNonce returns nil and leaves the
\* registry unchanged.
C1_IssueOrRefresh ==
    lastOp.op = "issue" =>
        IF ActiveAt(lastOp.pre, lastOp.address, lastOp.t)
        THEN /\ lastOp.ret = {lastOp.pre[lastOp.address]}
             /\ nonces = lastOp.pre
        ELSE IF lastOp.ok
        THEN \E n \in lastOp.ret :
                /\ lastOp.ret = {n}
                /\ NewNonceFor(n, lastOp.address, lastOp.t)
                /\ StoredOver(lastOp.pre, nonces, lastOp.address, n)
        ELSE /\ lastOp.ret = {}
             /\ nonces = lastOp.pre

\* Witness of C1: an expired entry of the identity was replaced by a new nonce
C1_Witness ==
    /\ lastOp.op = "issue"
    /\ lastOp.address \in DOMAIN lastOp.pre
    /\ ~ActiveAt(lastOp.pre, lastOp.address, lastOp.t)
    /\ lastOp.ret # {}
    /\ nonces[lastOp.address] # lastOp.pre[lastOp.address]

\* C2: ValidateNonce(id, candidate) at time now is true iff the registry has
\* an entry for id whose value and hash equal the candidate's and whose age
\* is at most 3600; a nonce issued for another identity is rejected.
C2_Validate ==
    lastOp.op = "validate" =>
        \A c \in lastOp.cand :
            /\ lastOp.ok <=>
                /\ lastOp.address \in DOMAIN nonces
                /\ nonces[lastOp.address].Value = c.Value
                /\ nonces[lastOp.address].Hash = c.Hash
                /\ lastOp.t - nonces[lastOp.address].Timestamp <= nonceLifetime
            /\ (c \in issued /\ c.Address # lastOp.address) => ~lastOp.ok

\* Witness of C2: a candidate with the stored value but another hash is
\* rejected while the stored entry is within its lifetime
C2_Witness ==
    /\ lastOp.op = "validate"
    /\ ~lastOp.ok
    /\ ActiveAt(nonces, lastOp.address, lastOp.t)
    /\ \E c \in lastOp.cand :
        /\ c.Value = nonces[lastOp.address].Value
        /\ c.Hash # nonces[lastOp.address].Hash

\* C3: a nonce n returned by GenerateOrUpdateNonce(id) at time t is accepted
\* by ValidateNonce(id, n) at every time in [t, t + 3600] and rejected at
\* every later time, whatever calls happen in between; ValidateNonce leaves
\* the registry as it is.
C3_ValidWindow ==
    /\ \A n \in issued :
        ValidateNonce(nonces, n.Address, n, now)
            <=> (now - n.Timestamp <= nonceLifetime)
    /\ lastOp.op = "validate" =>
        /\ nonces = lastOp.pre
        /\ \A c \in lastOp.cand :
            (c \in issued /\ c.Address = lastOp.address) =>
                (lastOp.ok <=> (lastOp.t - c.Timestamp <= nonceLifetime))

\* Witness of C3: a returned nonce, still stored (nothing pruned it), is
\* rejected after its lifetime, while another returned nonce is accepted
C3_Witness ==
    /\ lastOp.op = "validate"
    /\ ~lastOp.ok
    /\ \E c \in lastOp.cand :
        /\ c \in issued
        /\ c.Address = lastOp.address
        /\ lastOp.address \in DOMAIN nonces
        /\ nonces[lastOp.address] = c
    /\ \E n \in issued :
        /\ now - n.Timestamp = nonceLifetime
        /\ ValidateNonce(nonces, n.Address, n, now)

\* C4: PruneExpiredNonces at time now removes exactly the entries with
\* now - issuedAt > 3600 and leaves the others as they are; no removed entry
\* would have been accepted by ValidateNonce or reused by
\* GenerateOrUpdateNonce, and afterwards a pruned identity validates false
\* and a kept, fresh entry validates true.
C4_Prune ==
    lastOp.op = "prune" =>
        /\ DOMAIN nonces =
            {a \in DOMAIN lastOp.pre :
                ~(lastOp.t - lastOp.pre[a].Timestamp > nonceLifetime)}
        /\ \A a \in DOMAIN nonces : nonces[a] = lastOp.pre[a]
        /\ \A a \in (DOMAIN lastOp.pre) \ (DOMAIN nonces) :
            /\ ~ValidateNonce(lastOp.pre, a, lastOp.pre[a], lastOp.t)
            /\ GenerateOrUpdateNonce(lastOp.pre, a, lastOp.t, TRUE, 0).drew
            /\ \A c \in Candidates : ~ValidateNonce(nonces, a, c, now)
        /\ \A a \in DOMAIN nonces :
            ValidateNonce(nonces, a, nonces[a], lastOp.t)

\* Witness of C4: a prune removed an expired entry and kept a fresh one
C4_Witness ==
    /\ lastOp.op = "prune"
    /\ (DOMAIN lastOp.pre) \ (DOMAIN nonces) # {}
    /\ DOMAIN nonces # {}

----------------------------------------------------------------------------
(* Properties of GenerateAddress, checked under Spec *)

\* x is in the closed interval [lo, hi]; NaN is in no interval
InRange(x, lo, hi) == x # NaN /\ lo <= x /\ x <= hi

ValidCoordinates(lat, lon) ==
    /\ InRange(lat, -90 * Degree, 90 * Degree)
    /\ InRange(lon, -180 * Degree, 180 * Degree)

\* This step is goroutine t entering GenerateAddress
Enters(t) == thr[t].pc = "idle" /\ thr'[t].pc # "idle"

\* C5 as stated: GenerateAddress fails with the parameter error when
\* proofBits <= 0 and with a coordinate error when lat is not in [-90, 90] or
\* lon not in [-180, 180], NaN included; it then returns no AddressInfo,
\* starts no sub-task and leaves the cache and the registry unchanged.
C5_RejectsBadArguments ==
    [][\A t \in Threads :
        (Enters(t) /\ (thr'[t].bits <= 0 \/ ~ValidCoordinates(thr'[t].lat, thr'[t].lon)))
        => /\ thr'[t].pc = "done"
           /\ thr'[t].ret.ai = {}
           /\ thr'[t].ret.err =
                IF thr'[t].bits <= 0 THEN "bits must be positive"
                ELSE IF ~InRange(thr'[t].lat, -90 * Degree, 90 * Degree)
                THEN "invalid latitude"
                ELSE "invalid longitude"
           /\ thr'[t].pending = {}
           /\ UNCHANGED <<addressCache, nonces, issueSeq>>]_vars

\* C6: on a cache hit GenerateAddress returns the stored AddressInfo, starts
\* none of the four sub-tasks, and leaves the registry and the set of cached
\* entries unchanged, even if the nonce of the cached AddressInfo is gone.
C6_CacheHitFrame ==
    [][\A t \in Threads :
        (/\ Enters(t)
         /\ CheckArguments(thr'[t].lat, thr'[t].lon, thr'[t].bits) = NoError
         /\ CoordKey(thr'[t].lat, thr'[t].lon) \in CacheKeys(addressCache))
        => /\ thr'[t].pc = "done"
           /\ thr'[t].ret.err = NoError
           /\ thr'[t].ret.ai =
                {CacheValue(addressCache, CoordKey(thr'[t].lat, thr'[t].lon))}
           /\ thr'[t].pending = {}
           /\ issueSeq' = issueSeq
           /\ UNCHANGED <<nonces, nonceSeq, issued>>
           /\ {addressCache'[i] : i \in 1..Len(addressCache')}
                = {addressCache[i] : i \in 1..Len(addressCache)}
           /\ Len(addressCache') = Len(addressCache)]_vars

\* Witness of C6: a call was served from the cache although the registry no
\* longer holds a nonce for the key (it expired and was pruned)
C6_Witness ==
    \E t \in Threads :
        /\ thr[t].pc = "done"
        /\ thr[t].hit
        /\ thr[t].ret.ai # {}
        /\ thr[t].key \notin DOMAIN nonces
        /\ now > nonceLifetime

\* C7: when a successful GenerateAddress call is followed by a call with the
\* same coordinates, and no other call entered or joined in between, the
\* second call returns the same AddressInfo, from the cache, and the cache
\* holds exactly one entry for the key.
C7_SecondCallSame ==
    [][\A t \in Threads : \A x \in lastOk :
        (/\ Enters(t)
         /\ thr'[t].bits > 0
         /\ thr'[t].lat = x.lat
         /\ thr'[t].lon = x.lon)
        => /\ thr'[t].pc = "done"
           /\ thr'[t].hit
           /\ thr'[t].ret = [ai |-> {x.ai}, err |-> NoError]
           /\ Cardinality({i \in 1..Len(addressCache') :
                    addressCache'[i].key = CoordKey(x.lat, x.lon)}) = 1]_vars

\* Witness of C7: the second of two calls in a row for the same coordinates
\* has returned what the first one, a full issuance, returned
C7_Witness ==
    \E t \in Threads : \E x \in lastOk :
        /\ thr[t].pc = "done"
        /\ thr[t].hit
        /\ thr[t].lat = x.lat
        /\ thr[t].lon = x.lon
        /\ thr[t].ret.ai = {x.ai}
        /\ issueSeq = 1

\* C9 as stated: if a sub-task of GenerateAddress fails on a cache miss, the
\* call returns an error and no AddressInfo, and stores nothing in the cache.
C9_SubTaskFailureReturnsError ==
    \A t \in Threads :
        (thr[t].failed # {} /\ \/ thr[t].pc # "fanout"
                               \/ thr[t].pending = {})
        => /\ thr[t].pc \in {"fanout", "done"}
           /\ thr[t].pc = "done" =>
                /\ thr[t].ret.ai = {}
                /\ thr[t].ret.err # NoError
                /\ \A i \in 1..Len(addressCache) :
                    addressCache[i].value.PublicKey # EncodeRaw(<<"pk", thr[t].seq>>)

\* C10 as stated: when GenerateAddress fails because a sub-task failed, the
\* failed call has created or replaced no entry of the nonce registry.
C10_FailedIssueLeavesRegistry ==
    \A t \in Threads :
        (thr[t].pc = "done" /\ thr[t].ret.err # NoError /\ thr[t].seq > 0)
        => ~thr[t].stored

----------------------------------------------------------------------------
(* Properties of the cache at its capacity, checked under SpecLRU *)

\* The n most recently used keys
MostRecent(order, n) ==
    {order[i] : i \in (IF Len(order) > n THEN Len(order) - n + 1 ELSE 1)..Len(order)}

----------------------------------------------------------------------------
(* Propagation of sub-task failures, checked under Spec *)

\* C11 as stated: when rand.Read fails in the nonce sub-task of a cache miss
\* (GenerateOrUpdateNonce returns no nonce), GenerateAddress does not crash
\* and, once it has returned, has returned an error and no AddressInfo and
\* has stored nothing in the cache.
C11_NonceFailureSurfaced ==
    \A t \in Threads :
        3 \in thr[t].failed
        => /\ thr[t].pc # "panic"
           /\ thr[t].pc = "done" =>
                /\ thr[t].ret.ai = {}
                /\ thr[t].ret.err # NoError
                /\ thr[t].key \notin CacheKeys(addressCache)

----------------------------------------------------------------------------
(* Properties of GenerateAddressesBatch, checked under SpecBatch *)

\* The calls of the batch whose GenerateAddress returned an error
FailedMembers == {i \in 1..Len(batch.errs) : batch.errs[i] # NoError}

\* C12: when every member issuance of a batch of N coordinates succeeded,
\* GenerateAddressesBatch returns no error and N AddressInfo, element i
\* being the one issued for coordinates[i] (its proof and its nonce are those
\* of the key of coordinates[i]), in whatever order the members ran.
C12_BatchKeepsOrder ==
    (batch.pc = "done" /\ FailedMembers = {})
    => /\ batch.ret.err = NoError
       /\ \E a \in batch.ret.addresses :
            /\ Len(a) = Len(batch.coords)
            /\ \A i \in 1..Len(a) : \E ai \in a[i] :
                LET key == CoordKey(batch.coords[i][1], batch.coords[i][2])
                IN  /\ ai.ZKPProof[2] = key
                    /\ ai.NonceHash[2][2] = key
                    /\ key \in CacheKeys(batch.pre.cache)
                        => ai = CacheValue(batch.pre.cache, key)

\* Witness of C12: a batch of two different coordinates has succeeded, and
\* the member of the second pair was the first to fan out
C12_Witness ==
    /\ batch.pc = "done"
    /\ batch.ret.err = NoError
    /\ Len(batch.coords) = 2
    /\ batch.coords[1] # batch.coords[2]
    /\ \E a \in batch.ret.addresses : \E x \in a[1] : \E y \in a[2] :
        /\ x.PublicKey = EncodeRaw(<<"pk", 2>>)
        /\ y.PublicKey = EncodeRaw(<<"pk", 1>>)

C14_FailedBatchLeavesState ==
    (batch.pc = "done" /\ batch.ret.err # NoError)
    => /\ {addressCache[i] : i \in 1..Len(addressCache)}
            = {batch.pre.cache[i] : i \in 1..Len(batch.pre.cache)}
       /\ nonces = batch.pre.nonces

----------------------------------------------------------------------------
(* Concurrent GenerateAddress calls for one key, checked under Spec *)

\* This step is goroutine t returning from a full issuance with its
\* AddressInfo stored
Stores(t) ==
    /\ thr[t].pc = "fanout"
    /\ thr'[t].pc = "done"
    /\ thr'[t].ret.err = NoError

\* C15: in every interleaving of GenerateAddress calls the cache holds one
\* entry per key; the entry of a key changes only when a full issuance for
\* that key stores its AddressInfo, and is then that AddressInfo (the store
\* made last wins); and a call that finds the key cached returns the entry.
C15_LastStoreWins ==
    [][/\ Cardinality(CacheKeys(addressCache')) = Len(addressCache')
       /\ \A k \in CacheKeys(addressCache') :
            (\/ k \notin CacheKeys(addressCache)
             \/ CacheValue(addressCache', k) # CacheValue(addressCache, k))
            => \E t \in Threads : Stores(t) /\ thr[t].key = k
       /\ \A t \in Threads :
            Stores(t) => /\ thr[t].key \in CacheKeys(addressCache')
                         /\ thr'[t].ret.ai = {CacheValue(addressCache', thr[t].key)}
       /\ \A t \in Threads :
            (/\ Enters(t)
             /\ CheckArguments(thr'[t].lat, thr'[t].lon, thr'[t].bits) = NoError
             /\ CoordKey(thr'[t].lat, thr'[t].lon) \in CacheKeys(addressCache))
            => thr'[t].ret =
                [ai |-> {CacheValue(addressCache, CoordKey(thr'[t].lat, thr'[t].lon))},
                 err |-> NoError]]_vars

\* Witness of C15: two concurrent calls for the same new coordinates both
\* missed the cache, both issued in full and have returned different
\* AddressInfo; the cache holds one entry, the one of the second to store
C15_Witness ==
    \E t \in Threads, u \in Threads :
        /\ t # u
        /\ thr[t].pc = "done" /\ thr[u].pc = "done"
        /\ ~thr[t].hit /\ ~thr[u].hit
        /\ thr[t].key = thr[u].key
        /\ thr[t].ret.ai # {} /\ thr[u].ret.ai # {}
        /\ thr[t].ret.ai # thr[u].ret.ai
        /\ \A x \in thr[t].ret.ai : \A y \in thr[u].ret.ai :
            /\ x.PublicKey # y.PublicKey
            /\ x.LocationCommitment # y.LocationCommitment
        /\ Len(addressCache) = 1
        /\ lastOk # {}
        /\ \A x \in lastOk : x.ai \in thr[u].ret.ai /\ addressCache[1].value = x.ai

----------------------------------------------------------------------------
(* Properties of the codecs, checked under SpecCodec *)

NoZeroByte(s) == \A i \in 1..Len(s) : s[i] # 0

ZeroBytes(s) == Cardinality({i \in 1..Len(s) : s[i] = 0})

\* C16 as stated: UnmarshalBinary of MarshalBinary(x) into an empty
\* AddressInfo succeeds and gives x back in all five fields when no field of
\* x holds a zero byte; and UnmarshalBinary fails, with the format error,
\* exactly when its input does not consist of 3 parts separated by zero
\* bytes (that is, does not hold exactly 2 zero bytes).
C16_BinaryRoundTrip ==
    calc.op = "UnmarshalBinary"
    => /\ calc.out.err # NoError <=> ZeroBytes(calc.in) # 2
       /\ calc.out.err \in {NoError, "invalid binary format"}
       /\ \A x \in calc.src :
            (/\ NoZeroByte(x.PublicKey)
             /\ NoZeroByte(x.LocationCommitment)
             /\ NoZeroByte(x.ZKPProof)
             /\ NoZeroByte(x.NonceValue)
             /\ NoZeroByte(x.NonceHash))
            => calc.out = [ai |-> x, err |-> NoError]

\* C17 as stated: UnmarshalJSON of MarshalJSON(x) into an empty AddressInfo
\* succeeds and gives x back in all five fields, for every x; and
\* UnmarshalJSON fails when the value of publicKey, locationCommitment,
\* nonceValue or nonceHash is not base64.
C17_JsonRoundTrip ==
    calc.op = "UnmarshalJSON"
    => /\ \A x \in calc.src : calc.out = [ai |-> x, err |-> NoError]
       /\ ("publicKey" \in DOMAIN calc.in /\
            \E f \in {"publicKey", "locationCommitment", "nonceValue", "nonceHash"} :
                ~B64Valid(GoString(calc.in[f])))
            => calc.out.err # NoError

----------------------------------------------------------------------------
(* Properties of ConvertToPrecisionGrid, checked under SpecGrid *)

\* round(d * 111319.9 / precision) for a whole number d of degrees
WholeDegreeIndex(d, precision) ==
    LET n == (2 * Abs(d) * 1113199 + 10 * precision) \div (20 * precision)
    IN  IF d < 0 THEN -n ELSE n

\* C18 as stated: ConvertToPrecisionGrid(40.7128, -74.0060, 100) returns
\* the latitude index 45318 and the longitude index -62453; the latitude
\* index is round(lat * 111319.9 / precision); the call fails exactly when
\* precision <= 0.
C18_QuantizeAsStated ==
    calc.op = "ConvertToPrecisionGrid"
    => /\ calc.out.err # NoError <=> calc.in[3] <= 0
       /\ calc.in = <<407128000, -740060000, 100>> => calc.out.loc = <<45318, -62453>>
       /\ (calc.in[3] > 0 /\ calc.in[1] % Degree = 0)
            => calc.out.loc[1] = WholeDegreeIndex(calc.in[1] \div Degree, calc.in[3])

\* C18, amended: ConvertToPrecisionGrid(40.7128, -74.0060, 100) returns the
\* latitude index 45321 and the longitude index -62446; the latitude index
\* is round(lat * 111319.9 / precision); the call fails, returning no
\* location, exactly when precision <= 0.
C18_Quantize ==
    calc.op = "ConvertToPrecisionGrid"
    => /\ calc.out.err # NoError <=> calc.in[3] <= 0
       /\ calc.out.err # NoError => calc.out.loc = <<>>
       /\ calc.in = <<407128000, -740060000, 100>> => calc.out.loc = <<45321, -62446>>
       /\ (calc.in[3] > 0 /\ calc.in[1] % Degree = 0)
            => calc.out.loc[1] = WholeDegreeIndex(calc.in[1] \div Degree, calc.in[3])
       /\ calc.in = <<4000, 0, 100>> => calc.out.loc = <<0, 0>>

\* Witness of C18: the call with 40.7128, -74.0060 and precision 100 has
\* returned a location
C18_Witness ==
    /\ calc.op = "ConvertToPrecisionGrid"
    /\ calc.in = <<407128000, -740060000, 100>>
    /\ calc.out.err = NoError
    /\ Len(calc.out.loc) = 2

----------------------------------------------------------------------------
(* Properties of CommitLocation, checked under SpecCommit *)

\* C19 as stated: the commitment binds the location: two successful
\* CommitLocation calls with the same private scalar and the same
\* post-quantum randomness but different location bytes give different
\* commitments.
C19_CommitmentBindsLocation ==
    calc.op = "CommitLocation"
    => \A prev \in calc.src :
        (/\ prev.in[1] = calc.in[1]
         /\ prev.in[3] = calc.in[3]
         /\ prev.in[2] # calc.in[2]
         /\ prev.out.err = NoError
         /\ calc.out.err = NoError)
        => prev.out.commitment # calc.out.commitment

----------------------------------------------------------------------------
(* Properties of the proof's input, checked under SpecCell *)

\* The grid cell (latitude index, longitude index) of the coordinates
Cell(lat, lon) == ConvertToPrecisionGrid(lat, lon, GetDynamicPrecision).loc

\* C20 as stated: the secret handed to the prover is a hash of the quantized
\* location: two GenerateAddress calls whose coordinates quantize to the
\* same grid cell give the prover the same secret.
C20_ProofSecretOfCell ==
    \A t \in Threads, u \in Threads :
        (/\ thr[t].secret # <<>>
         /\ thr[u].secret # <<>>
         /\ Cell(thr[t].lat, thr[t].lon) = Cell(thr[u].lat, thr[u].lon))
        => thr[t].secret = thr[u].secret

----------------------------------------------------------------------------
(* Properties of the fan-out, checked under SpecFan *)

\* The variables of GenerateAddress that goroutine i assigns
OwnVariables(f, i) ==
    CASE i = 0 -> <<f.publicKey, f.errs[0]>>
      [] i = 1 -> <<f.locationCommitment, f.errs[1]>>
      [] i = 2 -> <<f.zkpProofStr, f.errs[2]>>
      [] i = 3 -> <<f.nonce, f.errs[3]>>

\* What goroutine i's call returned to it, as it leaves it in its variables
Returned4(f, i) ==
    CASE i = 0 -> <<f.local[0].val, f.local[0].err>>
      [] i = 1 -> <<f.local[1].val, f.local[1].err>>
      [] i = 2 -> <<CHOOSE x \in f.local[2].val : TRUE, NoError>>
      [] i = 3 -> <<f.local[3].val, NoError>>

\* C21: while the caller waits, a step that changes the result or error
\* variable of sub-task i is a step of goroutine i and of no other; the
\* caller passes wg.Wait() only when all four goroutines have finished, and
\* then every shared variable holds what its goroutine's call returned;
\* after that the variables do not change, the AddressInfo is assembled from
\* them, and the cache is written only in that step (or touched by a hit).
C21_SubTasksIsolated ==
    [][/\ (fan.pc = "wait" /\ fan'.pc = "wait") =>
              \A i \in 0..3 :
                  OwnVariables(fan', i) # OwnVariables(fan, i) =>
                      /\ fan'.task[i] # fan.task[i]
                      /\ \A j \in 0..3 \ {i} : fan'.task[j] = fan.task[j]
       /\ (fan.pc = "wait" /\ fan'.pc = "joined") =>
              /\ fan.wg = 0
              /\ \A i \in 0..3 :
                     /\ fan.task[i] = "done"
                     /\ OwnVariables(fan, i) = Returned4(fan, i)
       /\ fan.pc = "joined" =>
              /\ \A i \in 0..3 : OwnVariables(fan', i) = OwnVariables(fan, i)
              /\ (fan'.pc = "done" /\ fan'.ret.err = NoError) =>
                     /\ fan'.ret.ai =
                            {AddressInfo(EncodeRaw(CHOOSE x \in fan.publicKey : TRUE),
                                         EncodeRaw(CHOOSE x \in fan.locationCommitment : TRUE),
                                         fan.zkpProofStr,
                                         EncodeStd((CHOOSE x \in fan.nonce : TRUE).Value),
                                         EncodeStd((CHOOSE x \in fan.nonce : TRUE).Hash))}
                     /\ {addressCache'[1].value} = fan'.ret.ai
       /\ addressCache' # addressCache => fan.pc \in {"idle", "joined"}
      ]_vars

\* A full issuance has fanned out, joined and returned an AddressInfo
C21_Witness ==
    /\ fan.pc = "done"
    /\ fan.seq > 0
    /\ fan.ret.ai # {}
    /\ \A i \in 0..3 : fan.task[i] = "done"

----------------------------------------------------------------------------
(* Termination, checked under SpecTerm *)

\* C22: every GenerateAddressesBatch call in progress eventually returns,
\* and so does every GenerateAddress call of a member that has fanned out
C22_CallsReturn ==
    /\ (batch.pc = "running") ~> (batch.pc = "done")
    /\ \A t \in Threads : (thr[t].pc = "fanout") ~> (thr[t].pc = "done")

----------------------------------------------------------------------------
(* Properties of the registry's locking, checked under SpecLock *)

\* Goroutine p is between the hashContext.Reset() and the Sum of its call
UsesHashContext(p) == proc[p].pc \in {"hashAddress", "hashValue", "hashSum"}

\* The readers-writer discipline in one state: at most one writer, and no
\* reader with it; a goroutine inside an exclusive section is the writer, one
\* inside ValidateNonce's read is a reader; at most one goroutine uses the
\* hashing context, and what it reads back is the hash of its own input
Discipline ==
    /\ Cardinality(noncesMutex.writer) <= 1
    /\ noncesMutex.writer # {} => noncesMutex.readers = {}
    /\ \A p \in Procs :
           /\ proc[p].pc \in {"lookup", "rand", "hashReset", "hashAddress", "hashValue",
                              "hashSum", "store", "sweep", "unlock"}
                  => noncesMutex.writer = {p}
           /\ proc[p].pc \in {"read", "runlock"} => p \in noncesMutex.readers
           /\ proc[p].pc = "store"
                  => proc[p].hash = generateNonceHash(proc[p].address, proc[p].value)
    /\ \A p, q \in Procs : UsesHashContext(p) /\ UsesHashContext(q) => p = q

\* C23: every step that writes the nonce store or the hashing context is
\* taken by the goroutine that holds the exclusive lock, while no reader
\* holds the mutex and no other goroutine moves; the discipline holds
\* before and after every step
C23_ReadersWriterDiscipline ==
    [][/\ Discipline
       /\ Discipline'
       /\ (nonces' # nonces \/ hashContext' # hashContext) =>
              \E p \in Procs :
                  /\ noncesMutex.writer = {p}
                  /\ noncesMutex'.writer = {p}
                  /\ noncesMutex.readers = {}
                  /\ proc'[p] # proc[p]
                  /\ \A q \in Procs \ {p} : proc'[q] = proc[q]
      ]_vars

\* Two ValidateNonce calls hold the shared lock at once, and a nonce has
\* been hashed and stored under the exclusive lock
C23_Witness ==
    /\ Cardinality(noncesMutex.readers) >= 2
    /\ \A p \in noncesMutex.readers : proc[p].pc = "read"
    /\ nonces # <<>>

----------------------------------------------------------------------------
(* The nonce a returned AddressInfo carries, checked under Spec *)

\* base64.StdEncoding.DecodeString of a field EncodeStd produced
DecodeStd(s) == s[2]

\* Goroutine t's GenerateAddress call returns an AddressInfo in this step
ReturnsAddress(t) ==
    /\ thr[t].pc # "done"
    /\ thr'[t].pc = "done"
    /\ thr'[t].ret.err = NoError
    /\ thr'[t].ret.ai # {}

\* The nonce a caller rebuilds from the two nonce fields of ai
CarriedNonce(key, ai) ==
    Nonce(key, DecodeStd(ai.NonceValue), DecodeStd(ai.NonceHash), 0)

\* The registry issued the nonce ai carries for key no more than
\* nonceLifetime seconds before t
IssuedWithinLifetime(log, key, ai, t) ==
    \E n \in log :
        /\ n.Address = key
        /\ n.Value = DecodeStd(ai.NonceValue)
        /\ n.Hash = DecodeStd(ai.NonceHash)
        /\ t - n.Timestamp <= nonceLifetime

\* C24 as stated: whenever GenerateAddress returns an AddressInfo, by a miss
\* or by a hit, ValidateNonce accepts the nonce it carries for the
\* coordinate key at the time of the return
C24_ReturnedNonceAccepted ==
    [][\A t \in Threads :
           ReturnsAddress(t) =>
               \A ai \in thr'[t].ret.ai :
                   ValidateNonce(nonces', thr'[t].key,
                                 CarriedNonce(thr'[t].key, ai), now')
      ]_vars

\* C24, amended: whenever GenerateAddress returns an AddressInfo,
\* ValidateNonce accepts the nonce it carries for the coordinate key at the
\* time of the return exactly when the registry issued that nonce no more
\* than 3600 seconds earlier
C24_ReturnedNonceAcceptedWhileFresh ==
    [][\A t \in Threads :
           ReturnsAddress(t) =>
               \A ai \in thr'[t].ret.ai :
                   ValidateNonce(nonces', thr'[t].key,
                                 CarriedNonce(thr'[t].key, ai), now')
                   <=> IssuedWithinLifetime(issued', thr'[t].key, ai, now')
      ]_vars

\* A call has returned by a cache hit an AddressInfo whose nonce is rejected,
\* after an earlier issuance whose nonce was accepted when it was stored
C24_Witness ==
    \E t \in Threads :
        /\ thr[t].pc = "done"
        /\ thr[t].hit
        /\ thr[t].ret.err = NoError
        /\ \E ai \in thr[t].ret.ai :
               /\ ~ValidateNonce(nonces, thr[t].key, CarriedNonce(thr[t].key, ai), now)
               /\ IssuedWithinLifetime(issued, thr[t].key, ai, 0)
               /\ ~IssuedWithinLifetime(issued, thr[t].key, ai, now)

----------------------------------------------------------------------------
(* The bit-length of the returned proof, checked under SpecBits *)

\* The bit-length the prover of a proof string was built with:
\* libzk13.NewZK13(string(hash), bits)
ProofBits(zkpProof) == zkpProof[3]

\* C25 as stated: every GenerateAddress call that returns an AddressInfo
\* returns a proof generated with the bit-length that call passed
C25_ProofHasRequestedBits ==
    [][\A t \in Threads :
           ReturnsAddress(t) =>
               \A ai \in thr'[t].ret.ai : ProofBits(ai.ZKPProof) = thr'[t].bits
      ]_vars

\* C25, amended: a call that misses the cache returns a proof generated with
\* the bit-length it passed; a call served from the cache returns the
\* AddressInfo stored under the coordinate key, whatever bit-length it passed
C25_ProofBitsOfStoringCall ==
    [][\A t \in Threads :
           ReturnsAddress(t) =>
               \A ai \in thr'[t].ret.ai :
                   IF thr'[t].hit
                   THEN /\ thr'[t].key \in CacheKeys(addressCache)
                        /\ ai = CacheValue(addressCache, thr'[t].key)
                   ELSE ProofBits(ai.ZKPProof) = thr'[t].bits
      ]_vars

\* A call has been served from the cache a proof of another bit-length than
\* the one it passed
C25_Witness ==
    \E t \in Threads :
        /\ thr[t].pc = "done"
        /\ thr[t].hit
        /\ thr[t].ret.err = NoError
        /\ \E ai \in thr[t].ret.ai : ProofBits(ai.ZKPProof) # thr[t].bits

----------------------------------------------------------------------------
(* Re-issuance after eviction, checked under SpecEvict *)

\* C26: no PruneExpiredNonces runs in SpecEvict.  When a call that missed
\* the cache returns an AddressInfo for a key, and the registry had returned
\* a nonce for that key no more than 3600 seconds before, the AddressInfo
\* carries that nonce's value and hash.
C26_ReissueReusesNonce ==
    [][\A t \in LruThreads :
           (ReturnsAddress(t) /\ ~thr'[t].hit) =>
               \A ai \in thr'[t].ret.ai, n \in issued' :
                   (n.Address = thr'[t].key /\ now' - n.Timestamp <= nonceLifetime) =>
                       /\ ai.NonceValue = EncodeStd(n.Value)
                       /\ ai.NonceHash = EncodeStd(n.Hash)
      ]_vars

\* The first coordinate was issued, one hundred others evicted its entry,
\* and within the lifetime of its nonce it was issued again in full: the new
\* AddressInfo has a new public key and the nonce issued at time 0
C26_Witness ==
    \E t \in LruThreads :
        /\ thr[t].pc = "done"
        /\ ~thr[t].hit
        /\ thr[t].key = CoordKey(LatOf(0), LonOf(0))
        /\ thr[t].seq > CacheSize + 1
        /\ now > 0
        /\ now <= nonceLifetime
        /\ \E ai \in thr[t].ret.ai, n \in issued :
               /\ n.Address = thr[t].key
               /\ n.Timestamp = 0
               /\ ai.NonceValue = EncodeStd(n.Value)
               /\ ai.NonceHash = EncodeStd(n.Hash)
               /\ ai.PublicKey = EncodeRaw(<<"pk", thr[t].seq>>)

----------------------------------------------------------------------------
(* Failed structured decoding, checked under SpecCodec *)

\* C27 as stated: when UnmarshalJSON returns an error, for a text that is not
\* JSON or for a base64 field that does not decode, the receiver (the empty
\* AddressInfo the call decodes into) has none of its five fields changed
C27_FailedDecodeLeavesReceiver ==
    (calc.op = "UnmarshalJSON" /\ calc.out.err # NoError)
    => calc.out.ai = EmptyAddressInfo

----------------------------------------------------------------------------
(* Properties of the account ledger, checked under SpecLedger *)

\* The sum of the balances of the accounts in m
RECURSIVE SumBalances(_)
SumBalances(m) ==
    IF DOMAIN m = {} THEN 0
    ELSE LET a == CHOOSE x \in DOMAIN m : TRUE
         IN  m[a] + SumBalances([x \in DOMAIN m \ {a} |-> m[x]])

\* A Transfer that returned an error changed no balance
FailedTransferKeepsBalances ==
    (am.last.op = "Transfer" /\ am.last.err # NoError) => am.accounts = am.last.pre

\* A Transfer that succeeded kept the sum of the balances
TransferKeepsSum ==
    (am.last.op = "Transfer" /\ am.last.err = NoError)
    => SumBalances(am.accounts) = SumBalances(am.last.pre)

\* C28 as stated: after any sequence of CreateAccount calls with non-negative
\* initial balances and Transfer calls with any amounts, no balance is
\* negative; a Transfer that returned an error left every balance unchanged;
\* a Transfer that succeeded kept the sum of the balances
C28_LedgerInvariants ==
    /\ \A a \in DOMAIN am.accounts : am.accounts[a] >= 0
    /\ FailedTransferKeepsBalances
    /\ TransferKeepsSum

====
